---- MODULE Spec2Model ----
(***************************************************************************)
(* A model of picatz/slogproto: the slog Handler that writes length-       *)
(* prefixed protobuf records (handler.go), and Read, which scans them back *)
(* (read.go).                                                              *)
(*                                                                         *)
(* Representation.                                                         *)
(*  - A slog.Value is [kind, v]; a slog.Attr is [Key, Value]; the attrs of *)
(*    a group or of a record are a sequence (order and duplicates kept).   *)
(*  - A *Value of the protobuf schema is [kind, v] with kind "string",     *)
(*    "int", "group" (v: the map of a Value_Group that getValue built and  *)
(*    nobody mutates afterwards), "ref" (v: the index in `groups` of a     *)
(*    Value_Group that a Handler points to: a shared, mutable object),     *)
(*    "unset" (a Value whose oneof is not set) and "nilptr" (a nil *Value  *)
(*    stored in a map).                                                    *)
(*  - A Go map is a function from keys to values.                          *)
(*  - The serialized payload is [ok, rec, size]: whether the bytes are the  *)
(*    wire form of a Record, of which, and how many bytes they are.        *)
(*  - A time.Time is its Unix second, or the zero Time.                    *)
(***************************************************************************)
EXTENDS Integers, Sequences, FiniteSets, TLC

VARIABLES
    handlers,   \* the Handler objects, by allocation order; handlers[1] is NewHandler's
    groups,     \* the Value_Group objects that WithGroup allocated: each its Attrs map
    arrays,     \* the backing arrays of the []slog.Attr slices
    sink,       \* the writes the io.Writer accepted, in order
    pool,       \* recordPool: the Records it holds
    calls,      \* history: the Handle calls made, with their outcome
    derived,    \* history: for each handler, the call that returned it
    crashed,    \* the process died (fatal stack overflow in proto.Marshal)
    inflight,   \* per thread: the Handle call that has written its prefix only
    src,        \* Read's io.Reader: the segments of the stream it holds
    srcPos,     \* how many bytes the reader has handed out
    bufLen,     \* bufio.Scanner: len(s.buf)
    sStart,     \* bufio.Scanner: s.start
    sEnd,       \* bufio.Scanner: s.end
    sErr,       \* bufio.Scanner: s.err
    pc,         \* where Read is: "idle", "scan", "fill", "body", "done"
    token,      \* the token of the scanner that the body of Read's loop is to take
    cancelled,  \* ctx.Err() != nil
    stopAt,     \* fn returns false at this invocation (0: never)
    delivered,  \* history: the records fn was invoked with
    result,     \* what Read returned
    cpc,        \* where the consumer (the slp command) is: "start", "reading", "failed", "exit"
    filterProg, \* the consumer's filterProg
    emitted,    \* the records the consumer has written to its output
    reports     \* the errors the consumer has reported

hvars == <<handlers, groups, arrays, sink, pool, calls, derived, crashed>>

cvars == <<cpc, filterProg, emitted, reports>>

rvars == <<src, srcPos, bufLen, sStart, sEnd, sErr, pc, token, cancelled, stopAt, delivered,
          result, cpc, filterProg, emitted, reports>>

vars == <<handlers, groups, arrays, sink, pool, calls, derived, crashed, inflight,
          src, srcPos, bufLen, sStart, sEnd, sErr, pc, token, cancelled, stopAt,
          delivered, result, cpc, filterProg, emitted, reports>>

-----------------------------------------------------------------------------
(* Bounds of the model.                                                    *)

MaxHandlers == 4
MaxCalls == 2

-----------------------------------------------------------------------------
(* slog: levels, values, attrs.                                            *)

LevelDebug == -4
LevelInfo == 0
LevelWarn == 4
LevelError == 8

\* A time.Time: the zero Time (January 1, year 1, UTC), or a Unix second.
ZeroTime == [isZero |-> TRUE, unix |-> 0]
UnixTime(sec) == [isZero |-> FALSE, unix |-> sec]

IsZero(t) == t.isZero

StringValue(s) == [kind |-> "String", v |-> s]
Int64Value(i) == [kind |-> "Int64", v |-> i]
Uint64Value(u) == [kind |-> "Uint64", v |-> u]
\* A float64 is named by an integer (which float it is does not matter here).
Float64Value(f) == [kind |-> "Float64", v |-> f]
BoolValue(b) == [kind |-> "Bool", v |-> b]
TimeValue(t) == [kind |-> "Time", v |-> t]
\* A time.Duration is its nanoseconds (not negative in this model).
DurationValue(d) == [kind |-> "Duration", v |-> d]
\* An any value is named by what it holds: "nil", or "chan" (a channel, which
\* encoding/json cannot marshal), or "*anypb.Any" (what Read delivers).
AnyValue(x) == [kind |-> "Any", v |-> x]
\* A LogValuer is the value its LogValue method returns.
LogValuerValue(v) == [kind |-> "LogValuer", v |-> v]
Attr(k, v) == [Key |-> k, Value |-> v]

\* Value.isEmptyGroup: a group without attrs.
isEmptyGroup(v) == v.kind = "Group" /\ DOMAIN v.v = {}

\* slog.GroupValue(as...): the empty groups among `as` are removed.
GroupValue(as) ==
    [kind |-> "Group", v |-> SelectSeq(as, LAMBDA a : ~isEmptyGroup(a.Value))]
SlogString(k, s) == Attr(k, StringValue(s))
SlogInt(k, i) == Attr(k, Int64Value(i))
SlogGroup(k, as) == Attr(k, GroupValue(as))

NewRecord(t, level, msg, callerPC, as) ==
    [Time |-> t, Level |-> level, Message |-> msg, PC |-> callerPC, attrs |-> as]

-----------------------------------------------------------------------------
(* The protobuf schema (slog.proto): Level, Value, Record.                 *)

Level_Unset == 0
Level_Info == 1
Level_Warn == 2
Level_Error == 3
Level_Debug == 4

NilPtr == [kind |-> "nilptr", v |-> 0]
Unset == [kind |-> "unset", v |-> 0]
Value_String(s) == [kind |-> "string", v |-> s]
Value_Int(i) == [kind |-> "int", v |-> i]
Value_Group(m) == [kind |-> "group", v |-> m]
Value_Ref(g) == [kind |-> "ref", v |-> g]

NoTime == [set |-> FALSE, zero |-> FALSE, seconds |-> 0]
\* timestamppb.New(t): the Unix second of t; `zero` stands for the second of
\* the zero Time, -62135596800.
Timestamp(t) == [set |-> TRUE, zero |-> t.isZero, seconds |-> t.unix]

NanosPerSecond == 1000000000

\* durationpb.New(d).
Duration(d) == [seconds |-> d \div NanosPerSecond, nanos |-> d % NanosPerSecond]

Value_Bool(b) == [kind |-> "bool", v |-> b]
Value_Float(f) == [kind |-> "float", v |-> f]
Value_Uint(u) == [kind |-> "uint", v |-> u]
Value_Time(ts) == [kind |-> "time", v |-> ts]
Value_Duration(d) == [kind |-> "duration", v |-> d]
\* An anypb.Any with the type URL and the JSON of x.
Value_Any(x) == [kind |-> "any", v |-> x]

EmptyMap == [k \in {} |-> NilPtr]
Put(m, k, x) == [y \in DOMAIN m \cup {k} |-> IF y = k THEN x ELSE m[y]]

\* (*Record).Reset: the blank record.
BlankRecord == [Time |-> NoTime, Message |-> "", Level |-> Level_Unset, Attrs |-> EmptyMap]

-----------------------------------------------------------------------------
(* handler.go: getValue, convertLevel.                                     *)

RECURSIVE getValue(_)
RECURSIVE getGroupAttrs(_, _, _)

\* The loop of getValue's KindGroup case over attrs[i..]: g.Attrs[Key] = v,
\* whatever the key and also when v is nil; the first error ends it.
getGroupAttrs(attrs, i, g) ==
    IF i > Len(attrs) THEN [err |-> FALSE, val |-> g]
    ELSE LET r == getValue(attrs[i].Value)
         IN  IF r.err THEN [err |-> TRUE, val |-> g]
             ELSE getGroupAttrs(attrs, i + 1, Put(g, attrs[i].Key, r.val))

\* getValue converts a slog.Value to a *Value; [err, val].
getValue(value) ==
    CASE value.kind = "Any" ->
            IF value.v = "chan" THEN [err |-> TRUE, val |-> NilPtr]
            ELSE [err |-> FALSE, val |-> Value_Any(value.v)]
      [] value.kind = "Bool" -> [err |-> FALSE, val |-> Value_Bool(value.v)]
      [] value.kind = "Duration" -> [err |-> FALSE, val |-> Value_Duration(Duration(value.v))]
      [] value.kind = "Float64" -> [err |-> FALSE, val |-> Value_Float(value.v)]
      [] value.kind = "Int64" -> [err |-> FALSE, val |-> Value_Int(value.v)]
      [] value.kind = "String" -> [err |-> FALSE, val |-> Value_String(value.v)]
      [] value.kind = "Time" -> [err |-> FALSE, val |-> Value_Time(Timestamp(value.v))]
      [] value.kind = "Uint64" -> [err |-> FALSE, val |-> Value_Uint(value.v)]
      [] value.kind = "Group" ->
            LET r == getGroupAttrs(value.v, 1, EmptyMap)
            IN  IF r.err THEN [err |-> TRUE, val |-> NilPtr]
                ELSE IF Cardinality(DOMAIN r.val) = 0 THEN [err |-> FALSE, val |-> NilPtr]
                ELSE [err |-> FALSE, val |-> Value_Group(r.val)]
      [] value.kind = "LogValuer" -> getValue(value.v)
      [] OTHER -> [err |-> TRUE, val |-> NilPtr]

convertLevel(level) ==
    CASE level = LevelInfo -> Level_Info
      [] level = LevelWarn -> Level_Warn
      [] level = LevelError -> Level_Error
      [] level = LevelDebug -> Level_Debug
      [] OTHER -> Level_Info

-----------------------------------------------------------------------------
(* Go slices of slog.Attr: [arr, len] over a backing array of `arrays`;    *)
(* arr = 0 is the nil slice.                                               *)

ZeroAttr == Attr("", [kind |-> "Zero", v |-> 0])
NilSlice == [arr |-> 0, len |-> 0]

Cap(arrs, s) == IF s.arr = 0 THEN 0 ELSE Len(arrs[s.arr])
Elems(arrs, s) == IF s.arr = 0 THEN <<>> ELSE SubSeq(arrs[s.arr], 1, s.len)

\* The capacity append grows a slice to (runtime.growslice, below 256 elements).
GrowCap(old, needed) == IF needed > 2 * old THEN needed ELSE 2 * old

Zeros(n) == [i \in 1..n |-> ZeroAttr]

\* append(s, xs...): in place when the capacity allows, else into a new array.
\* [slice, arrays].
AppendSlice(arrs, s, xs) ==
    LET n == s.len + Len(xs)
    IN  IF Len(xs) = 0 THEN [slice |-> s, arrays |-> arrs]
        ELSE IF n <= Cap(arrs, s)
        THEN [slice |-> [arr |-> s.arr, len |-> n],
              arrays |-> [arrs EXCEPT ![s.arr] =
                            [i \in 1..Len(@) |->
                                IF i > s.len /\ i <= n THEN xs[i - s.len] ELSE @[i]]]]
        ELSE [slice |-> [arr |-> Len(arrs) + 1, len |-> n],
              arrays |-> Append(arrs, Elems(arrs, s) \o xs
                                        \o Zeros(GrowCap(Cap(arrs, s), n) - n))]

\* make([]slog.Attr, len(s)); copy(c, s). [slice, arrays].
CopySlice(arrs, s) ==
    IF s.len = 0 THEN [slice |-> NilSlice, arrays |-> arrs]
    ELSE [slice |-> [arr |-> Len(arrs) + 1, len |-> s.len],
          arrays |-> Append(arrs, Elems(arrs, s))]

-----------------------------------------------------------------------------
(* handler.go: Handler, NewHandler, WithAttrs, WithGroup.                  *)

\* parent = 0 and group = 0 are nil pointers.
NewHandler == [attrs |-> NilSlice, level |-> LevelInfo, parent |-> 0,
               group |-> 0, groupName |-> ""]

RECURSIVE withAttrsGroup(_, _, _)

\* The loop of WithAttrs on a handler with a group: h.group.Attrs[Key] = v for
\* attrs[i..]; an error of getValue panics. [panic, map].
withAttrsGroup(attrs, i, g) ==
    IF i > Len(attrs) THEN [panic |-> FALSE, map |-> g]
    ELSE LET r == getValue(attrs[i].Value)
         IN  IF r.err THEN [panic |-> TRUE, map |-> g]
             ELSE withAttrsGroup(attrs, i + 1, Put(g, attrs[i].Key, r.val))

\* h.WithAttrs(attrs) on the heap (hs, gs, arrs): [handlers, groups, arrays, panic];
\* the new handler is the last of handlers.
withAttrs(hs, gs, arrs, h, attrs) ==
    IF hs[h].group # 0
    THEN LET r == withAttrsGroup(attrs, 1, gs[hs[h].group])
         IN  [handlers |-> Append(hs, [attrs |-> hs[h].attrs, level |-> hs[h].level,
                                       parent |-> h, group |-> hs[h].group,
                                       groupName |-> hs[h].groupName]),
              groups |-> [gs EXCEPT ![hs[h].group] = r.map],
              arrays |-> arrs,
              panic |-> r.panic]
    ELSE LET a == AppendSlice(arrs, hs[h].attrs, attrs)
         IN  [handlers |-> Append(hs, [attrs |-> a.slice, level |-> hs[h].level,
                                       parent |-> h, group |-> 0, groupName |-> ""]),
              groups |-> gs,
              arrays |-> a.arrays,
              panic |-> FALSE]

\* h.WithGroup(name), name # "": [handlers, groups, arrays].
\* h.Enabled(ctx, level) for handler h of the heap hs.
Enabled(hs, h, level) == level <= hs[h].level

\* withGroup, but a group opened under the same name again is the same group.
withGroupMergesSameName(hs, gs, arrs, h, name) ==
    LET c == CopySlice(arrs, hs[h].attrs)
        newGroup == Len(gs) + 1
        embed == hs[h].parent # 0 /\ hs[hs[h].parent].group # 0
    IN  IF hs[h].group # 0 /\ hs[h].groupName = name
        THEN [handlers |-> Append(hs, [attrs |-> c.slice, level |-> hs[h].level,
                                       parent |-> hs[h].parent, group |-> hs[h].group,
                                       groupName |-> name]),
              groups |-> gs,
              arrays |-> c.arrays]
        ELSE [handlers |-> Append(hs, [attrs |-> c.slice, level |-> hs[h].level,
                                       parent |-> h, group |-> newGroup,
                                       groupName |-> name]),
              groups |-> IF embed
                         THEN Append([gs EXCEPT ![hs[hs[h].parent].group] =
                                         Put(@, name, Value_Ref(newGroup))], EmptyMap)
                         ELSE Append(gs, EmptyMap),
              arrays |-> c.arrays]

withGroup(hs, gs, arrs, h, name) ==
    LET c == CopySlice(arrs, hs[h].attrs)
        newGroup == Len(gs) + 1
        embed == hs[h].parent # 0 /\ hs[hs[h].parent].group # 0
    IN  [handlers |-> Append(hs, [attrs |-> c.slice, level |-> hs[h].level,
                                  parent |-> h, group |-> newGroup,
                                  groupName |-> name]),
         groups |-> IF embed
                    THEN Append([gs EXCEPT ![hs[hs[h].parent].group] =
                                    Put(@, name, Value_Ref(newGroup))], EmptyMap)
                    ELSE Append(gs, EmptyMap),
         arrays |-> c.arrays]

-----------------------------------------------------------------------------
(* handler.go: fillProtobufRecord.                                         *)

Merge(m, g) == [y \in DOMAIN m \cup DOMAIN g |-> IF y \in DOMAIN g THEN g[y] ELSE m[y]]

RECURSIVE fillHandlerAttrs(_, _, _)

\* "Add the handler's attributes": pbr.Attrs[Key] = v for h.attrs[i..], the
\* empty keys skipped (a nil v is stored). [err, top].
fillHandlerAttrs(attrs, i, top) ==
    IF i > Len(attrs) THEN [err |-> FALSE, top |-> top]
    ELSE IF attrs[i].Key = "" THEN fillHandlerAttrs(attrs, i + 1, top)
    ELSE LET r == getValue(attrs[i].Value)
         IN  IF r.err THEN [err |-> TRUE, top |-> top]
             ELSE fillHandlerAttrs(attrs, i + 1, Put(top, attrs[i].Key, r.val))

\* The function without the inlining: an empty key is skipped, group or not.
fillRecordAttrSkipsEmptyKeys(attr, inGroup, st) ==
    IF attr.Key = "" THEN st
    ELSE LET r == getValue(attr.Value)
         IN  IF r.err THEN [st EXCEPT !.err = TRUE]
             ELSE IF r.val = NilPtr THEN st
             ELSE IF inGroup THEN [st EXCEPT !.grp = Put(@, attr.Key, r.val)]
             ELSE [st EXCEPT !.top = Put(@, attr.Key, r.val)]

\* The function without "Skip the empty group": a nil value is stored.
fillRecordAttrKeepsNil(attr, inGroup, st) ==
    IF attr.Key = ""
    THEN IF attr.Value.kind = "Group"
         THEN LET r == getValue(attr.Value)
              IN  IF r.err THEN [st EXCEPT !.err = TRUE]
                  ELSE IF r.val = NilPtr THEN st
                  ELSE [st EXCEPT !.top = Merge(@, r.val.v)]
         ELSE st
    ELSE LET r == getValue(attr.Value)
         IN  IF r.err THEN [st EXCEPT !.err = TRUE]
             ELSE IF inGroup THEN [st EXCEPT !.grp = Put(@, attr.Key, r.val)]
             ELSE [st EXCEPT !.top = Put(@, attr.Key, r.val)]

\* One call of the function that fillProtobufRecord hands to slr.Attrs, on
\* st = [err, top (pbr.Attrs), grp (h.group.Attrs when inGroup)].
fillRecordAttr(attr, inGroup, st) ==
    IF attr.Key = ""
    THEN IF attr.Value.kind = "Group"
         THEN LET r == getValue(attr.Value)
              IN  IF r.err THEN [st EXCEPT !.err = TRUE]
                  ELSE IF r.val = NilPtr THEN st
                  ELSE [st EXCEPT !.top = Merge(@, r.val.v)]
         ELSE st
    ELSE LET r == getValue(attr.Value)
         IN  IF r.err THEN [st EXCEPT !.err = TRUE]
             ELSE IF r.val = NilPtr THEN st
             ELSE IF inGroup THEN [st EXCEPT !.grp = Put(@, attr.Key, r.val)]
             ELSE [st EXCEPT !.top = Put(@, attr.Key, r.val)]

RECURSIVE fillRecordAttrs(_, _, _, _)

\* slr.Attrs(f): f on attrs[i..] until it returns false (an error).
fillRecordAttrs(attrs, i, inGroup, st) ==
    IF i > Len(attrs) \/ st.err THEN st
    ELSE fillRecordAttrs(attrs, i + 1, inGroup, fillRecordAttr(attrs[i], inGroup, st))

\* The end of fillProtobufRecord without "Add the parent's group to the
\* record".
fillGroupsWithoutParent(p1, b, hs, gs, h) ==
    LET hd == hs[h]
        inGroup == hd.group # 0
        parentInGroup == hd.parent # 0 /\ hs[hd.parent].group # 0
        g1 == IF inGroup THEN [gs EXCEPT ![hd.group] = b.grp] ELSE gs
        g2 == IF inGroup /\ parentInGroup
              THEN [g1 EXCEPT ![hs[hd.parent].group] =
                        Put(@, hd.groupName, Value_Ref(hd.group))]
              ELSE g1
        t2 == IF inGroup /\ ~parentInGroup
              THEN Put(b.top, hd.groupName, Value_Ref(hd.group))
              ELSE b.top
    IN  IF b.err THEN [err |-> TRUE, pbr |-> [p1 EXCEPT !.Attrs = b.top], groups |-> g1]
        ELSE [err |-> FALSE, pbr |-> [p1 EXCEPT !.Attrs = t2], groups |-> g2]

\* The end of fillProtobufRecord, b = [err, top, grp] being what the loop
\* over the record's attrs left: "Add the group to the record", "Add the
\* parent's group to the record". [err, pbr, groups].
fillGroups(p1, b, hs, gs, h) ==
    LET hd == hs[h]
        inGroup == hd.group # 0
        parentInGroup == hd.parent # 0 /\ hs[hd.parent].group # 0
        g1 == IF inGroup THEN [gs EXCEPT ![hd.group] = b.grp] ELSE gs
        g2 == IF inGroup /\ parentInGroup
              THEN [g1 EXCEPT ![hs[hd.parent].group] =
                        Put(@, hd.groupName, Value_Ref(hd.group))]
              ELSE g1
        t2 == IF inGroup /\ ~parentInGroup
              THEN Put(b.top, hd.groupName, Value_Ref(hd.group))
              ELSE b.top
        t3 == IF parentInGroup
              THEN Put(t2, hs[hd.parent].groupName, Value_Ref(hs[hd.parent].group))
              ELSE t2
    IN  IF b.err THEN [err |-> TRUE, pbr |-> [p1 EXCEPT !.Attrs = b.top], groups |-> g1]
        ELSE [err |-> FALSE, pbr |-> [p1 EXCEPT !.Attrs = t3], groups |-> g2]

\* The middle of fillProtobufRecord, a = [err, top] being what the loop over
\* the handler's attrs left: the loop over the record's attrs, which writes
\* into h.group.Attrs when the handler has a group.
fillFromRecord(p1, a, hs, gs, h, slr) ==
    IF a.err THEN [err |-> TRUE, pbr |-> [p1 EXCEPT !.Attrs = a.top], groups |-> gs]
    ELSE fillGroups(p1,
                    fillRecordAttrs(slr.attrs, 1, hs[h].group # 0,
                                    [err |-> FALSE, top |-> a.top,
                                     grp |-> IF hs[h].group # 0 THEN gs[hs[h].group]
                                             ELSE EmptyMap]),
                    hs, gs, h)

\* h.fillProtobufRecord(pbr, slr) on the heap: [err, pbr, groups]. What it
\* wrote into the handler's groups before an error stays written.
fillProtobufRecord(pbr, hs, gs, arrs, h, slr) ==
    fillFromRecord([pbr EXCEPT !.Level = convertLevel(slr.Level),
                               !.Message = slr.Message,
                               !.Attrs = EmptyMap,
                               !.Time = IF IsZero(slr.Time) THEN @ ELSE Timestamp(slr.Time)],
                   fillHandlerAttrs(Elems(arrs, hs[h].attrs), 1, EmptyMap),
                   hs, gs, h, slr)

-----------------------------------------------------------------------------
(* proto.Marshal of a Record, and the length prefix.                       *)

RECURSIVE Resolve(_, _, _)

\* The message tree that the marshaller walks from v: the pointers to the
\* handlers' groups followed (at most `fuel` of them in a row: a longer chain
\* goes through one group twice), a nil *Value written as an empty Value.
Resolve(v, gs, fuel) ==
    CASE v.kind = "ref" ->
            IF fuel = 0 THEN [kind |-> "cycle", v |-> 0]
            ELSE Value_Group([k \in DOMAIN gs[v.v] |-> Resolve(gs[v.v][k], gs, fuel - 1)])
      [] v.kind = "group" -> Value_Group([k \in DOMAIN v.v |-> Resolve(v.v[k], gs, fuel)])
      [] v.kind = "nilptr" -> Unset
      [] OTHER -> v

RECURSIVE HasCycle(_)

HasCycle(v) ==
    \/ v.kind = "cycle"
    \/ v.kind = "group" /\ \E k \in DOMAIN v.v : HasCycle(v.v[k])

\* The length of a string in bytes.
ByteLen(s) == Len(s)

\* protowire.SizeVarint.
SizeVarint(n) ==
    IF n < 0 THEN 10
    ELSE IF n < 128 THEN 1
    ELSE IF n < 16384 THEN 2
    ELSE IF n < 2097152 THEN 3
    ELSE IF n < 268435456 THEN 4
    ELSE 5

\* protowire.SizeBytes: a length-delimited field's content.
SizeBytes(n) == SizeVarint(n) + n

\* The wire size of a Timestamp and of a Duration (the nanoseconds of a
\* Timestamp are 0 in this model).
TimestampSize(ts) ==
    IF ts.zero THEN 1 + 10
    ELSE IF ts.seconds = 0 THEN 0 ELSE 1 + SizeVarint(ts.seconds)

DurationSize(d) ==
    (IF d.seconds = 0 THEN 0 ELSE 1 + SizeVarint(d.seconds))
    + (IF d.nanos = 0 THEN 0 ELSE 1 + SizeVarint(d.nanos))

\* The wire size of the Any for x: the type URL "go/slog/<nil>" and the JSON
\* "null" when x is nil.
AnySize(x) == (1 + SizeBytes(13)) + (1 + SizeBytes(4))

RECURSIVE ValueSize(_)
RECURSIVE MapSize(_, _)

\* The wire size of the entries `keys` of map m, each one field of 1 tag
\* byte holding the key as field 1 and the value as field 2.
MapSize(m, keys) ==
    IF keys = {} THEN 0
    ELSE LET k == CHOOSE x \in keys : TRUE
         IN  1 + SizeBytes((1 + SizeBytes(ByteLen(k))) + (1 + SizeBytes(ValueSize(m[k]))))
               + MapSize(m, keys \ {k})

\* The wire size of a Value: its oneof member, written also when it is zero.
ValueSize(v) ==
    CASE v.kind = "bool" -> 1 + 1
      [] v.kind = "float" -> 1 + 8
      [] v.kind = "int" -> 1 + SizeVarint(v.v)
      [] v.kind = "string" -> 1 + SizeBytes(ByteLen(v.v))
      [] v.kind = "time" -> 1 + SizeBytes(TimestampSize(v.v))
      [] v.kind = "duration" -> 1 + SizeBytes(DurationSize(v.v))
      [] v.kind = "uint" -> 1 + SizeVarint(v.v)
      [] v.kind = "group" -> 1 + SizeBytes(MapSize(v.v, DOMAIN v.v))
      [] v.kind = "any" -> 1 + SizeBytes(AnySize(v.v))
      [] OTHER -> 0

\* The wire size of a Record (proto3: a zero scalar is not written).
RecordSize(rec) ==
    (IF rec.Time.set THEN 1 + SizeBytes(TimestampSize(rec.Time)) ELSE 0)
    + (IF rec.Message = "" THEN 0 ELSE 1 + SizeBytes(ByteLen(rec.Message)))
    + (IF rec.Level = 0 THEN 0 ELSE 1 + SizeVarint(rec.Level))
    + MapSize(rec.Attrs, DOMAIN rec.Attrs)

\* `size` bytes that are the wire form of rec, and `n` bytes that are not the
\* wire form of any Record.
Bytes(rec, size) == [ok |-> TRUE, rec |-> rec, size |-> size]
Garbage(n) == [ok |-> FALSE, rec |-> BlankRecord, size |-> n]

\* proto.Marshal(pbr): [overflow, b]; b = Bytes(rec, size) are the bytes, as what
\* they hold and how many they are. A group that contains itself makes the
\* marshaller recurse until the stack overflows.
Marshal(pbr, gs) ==
    LET rec == [pbr EXCEPT !.Attrs = [k \in DOMAIN @ |-> Resolve(@[k], gs, Len(gs))]]
        cyclic == \E k \in DOMAIN rec.Attrs : HasCycle(rec.Attrs[k])
    IN  IF cyclic THEN [overflow |-> TRUE, b |-> Bytes(BlankRecord, 0)]
        ELSE [overflow |-> FALSE, b |-> Bytes(rec, RecordSize(rec))]

\* The four bytes of n, most significant first.
PutUint32BigEndian(n) ==
    <<(n \div 16777216) % 256, (n \div 65536) % 256, (n \div 256) % 256, n % 256>>

\* binary.LittleEndian.PutUint32(buf, uint32(n)), for n below 2^31 (a
\* protobuf message is never longer).
PutUint32(n) ==
    <<n % 256, (n \div 256) % 256, (n \div 65536) % 256, (n \div 16777216) % 256>>

\* binary.LittleEndian.Uint32(data[:4]).
Uint32(data) == data[1] + 256 * data[2] + 65536 * data[3] + 16777216 * data[4]

\* The two writes of Handle for payload b, as call `id`.
FrameWrites(id, b) ==
    << [call |-> id, kind |-> "len", data |-> PutUint32(b.size)],
       [call |-> id, kind |-> "msg", data |-> b] >>

\* recordPool.Get(): a pooled Record, or New's.
PoolGet(pl) == IF pl = <<>> THEN BlankRecord ELSE Head(pl)
\* Handle's deferred function: pbr.Reset(); recordPool.Put(pbr).
PoolPut(pl, pbr) == (IF pl = <<>> THEN <<>> ELSE Tail(pl)) \o <<BlankRecord>>

-----------------------------------------------------------------------------
(* The inputs of the model.                                                *)

T1 == UnixTime(1700000000)

AttrLists ==
    { <<SlogString("a", "b")>>, <<SlogString("c", "d")>> }

GroupNames == {"", "G", "H"}

Records ==
    { NewRecord(T1, LevelInfo, "msg", 1, <<SlogString("e", "f")>>),
      NewRecord(T1, LevelWarn, "m", 1, <<SlogString("a", "b"), SlogInt("n", 1)>>),
      NewRecord(T1, LevelInfo, "msg", 0, <<SlogString("e", "f")>>) }

-----------------------------------------------------------------------------
(* The operations, single-threaded.                                        *)

Threads == {1, 2}
NoCall == [id |-> 0, b |-> Garbage(0)]

HInit ==
    /\ handlers = <<NewHandler>>
    /\ groups = <<>>
    /\ arrays = <<>>
    /\ sink = <<>>
    /\ pool = <<>>
    /\ calls = <<>>
    /\ derived = <<[op |-> "NewHandler", from |-> 0, arg |-> <<>>]>>
    /\ crashed = FALSE
    /\ inflight = [t \in Threads |-> NoCall]

\* h.WithAttrs(attrs); its panic ends the program, with the group as the loop
\* left it.
WithAttrs(h, attrs) ==
    /\ ~crashed
    /\ \E r \in {withAttrs(handlers, groups, arrays, h, attrs)} :
           IF r.panic
           THEN /\ crashed' = TRUE
                /\ groups' = r.groups
                /\ UNCHANGED <<handlers, arrays, derived>>
           ELSE /\ handlers' = r.handlers
                /\ groups' = r.groups
                /\ arrays' = r.arrays
                /\ derived' = Append(derived, [op |-> "WithAttrs", from |-> h, arg |-> attrs])
                /\ UNCHANGED crashed
    /\ UNCHANGED <<sink, pool, calls, inflight>>
    /\ UNCHANGED rvars

\* h.WithGroup(name): the receiver itself for the empty name.
WithGroup(h, name) ==
    /\ ~crashed
    /\ IF name = ""
       THEN UNCHANGED <<handlers, groups, arrays, derived>>
       ELSE /\ LET r == withGroup(handlers, groups, arrays, h, name)
               IN  /\ handlers' = r.handlers
                   /\ groups' = r.groups
                   /\ arrays' = r.arrays
            /\ derived' = Append(derived, [op |-> "WithGroup", from |-> h, arg |-> name])
    /\ UNCHANGED <<sink, pool, calls, crashed, inflight>>
    /\ UNCHANGED rvars

\* The end of Handle, f being what fillProtobufRecord returned and m what
\* proto.Marshal then returned: the two writes, and the deferred Put.
handleWrite(f, m, pl, id) ==
    IF m.overflow
    THEN [out |-> "overflow", groups |-> f.groups, writes |-> <<>>, pool |-> pl]
    ELSE [out |-> "ok", groups |-> f.groups, writes |-> FrameWrites(id, m.b),
          pool |-> PoolPut(pl, f.pbr)]

\* Handle going on to Marshal and write whatever fillProtobufRecord returned.
handleFilledIgnoresErr(f, pl, id) == handleWrite(f, Marshal(f.pbr, f.groups), pl, id)

\* Handle after fillProtobufRecord returned f.
handleFilled(f, pl, id) ==
    IF f.err
    THEN [out |-> "error", groups |-> f.groups, writes |-> <<>>, pool |-> PoolPut(pl, f.pbr)]
    ELSE handleWrite(f, Marshal(f.pbr, f.groups), pl, id)

\* Handle looking at r.PC only after the record was filled.
handleChecksPCAfterFill(hs, gs, arrs, pl, id, h, r) ==
    IF r.PC = 0
    THEN [out |-> "ignored",
          groups |-> fillProtobufRecord(PoolGet(pl), hs, gs, arrs, h, r).groups,
          writes |-> <<>>,
          pool |-> PoolPut(pl, BlankRecord)]
    ELSE handleFilled(fillProtobufRecord(PoolGet(pl), hs, gs, arrs, h, r), pl, id)

\* Handle ignoring also the records whose time is the zero Time.
handleIgnoresZeroTime(hs, gs, arrs, pl, id, h, r) ==
    IF r.PC = 0 \/ IsZero(r.Time)
    THEN [out |-> "ignored", groups |-> gs, writes |-> <<>>, pool |-> pl]
    ELSE handleFilled(fillProtobufRecord(PoolGet(pl), hs, gs, arrs, h, r), pl, id)

\* What h.Handle(ctx, r) does as call `id` on the heap, when both writes
\* succeed: [out, groups, writes, pool].
handle(hs, gs, arrs, pl, id, h, r) ==
    IF r.PC = 0
    THEN [out |-> "ignored", groups |-> gs, writes |-> <<>>, pool |-> pl]
    ELSE handleFilled(fillProtobufRecord(PoolGet(pl), hs, gs, arrs, h, r), pl, id)

\* ---- read.go: what Read does with one token of the scanner. ----

\* A decoder that takes any bytes for a Record.
UnmarshalAcceptsAll(b) == [err |-> FALSE, rec |-> b.rec]

\* proto.Unmarshal(b, pbRecord): [err, rec].
Unmarshal(b) == [err |-> ~b.ok, rec |-> b.rec]

\* The levels taken in the order of their severity.
fromPBLevelBySeverity(l) ==
    CASE l = 1 -> LevelDebug
      [] l = 2 -> LevelInfo
      [] l = 3 -> LevelWarn
      [] l = 4 -> LevelError
      [] OTHER -> LevelInfo

fromPBLevel(l) ==
    CASE l = Level_Info -> LevelInfo
      [] l = Level_Warn -> LevelWarn
      [] l = Level_Error -> LevelError
      [] l = Level_Debug -> LevelDebug
      [] OTHER -> LevelInfo

\* (*timestamppb.Timestamp).AsTime: a nil Timestamp is the Unix second 0.
AsTime(ts) ==
    IF ~ts.set THEN UnixTime(0)
    ELSE IF ts.zero THEN ZeroTime
    ELSE UnixTime(ts.seconds)

\* (*durationpb.Duration).AsDuration.
AsDuration(d) == d.seconds * NanosPerSecond + d.nanos

\* The zero slog.Value: KindAny holding nil.
ZeroValue == AnyValue("nil")

\* GroupValue and AddAttrs keeping the empty groups.
omitEmptyGroupsKeepsAll(m) == m

\* slog.GroupValue(attrs...) and Record.AddAttrs(attrs...) on the attrs that
\* the loops of Read and of fromPBValue collect from a map (in the order the
\* map iteration gives them, which m as a mapping leaves out): the empty
\* groups are removed.
omitEmptyGroups(m) == [k \in {x \in DOMAIN m : ~isEmptyGroup(m[x])} |-> m[k]]

RECURSIVE fromPBValue(_)

\* fromPBValue(v): [err, val]; a group becomes the mapping of its attrs.
fromPBValue(v) ==
    CASE v.kind = "bool" -> [err |-> FALSE, val |-> BoolValue(v.v)]
      [] v.kind = "float" -> [err |-> FALSE, val |-> Float64Value(v.v)]
      [] v.kind = "int" -> [err |-> FALSE, val |-> Int64Value(v.v)]
      [] v.kind = "string" -> [err |-> FALSE, val |-> StringValue(v.v)]
      [] v.kind = "time" -> [err |-> FALSE, val |-> TimeValue(AsTime(v.v))]
      [] v.kind = "duration" -> [err |-> FALSE, val |-> DurationValue(AsDuration(v.v))]
      [] v.kind = "uint" -> [err |-> FALSE, val |-> Uint64Value(v.v)]
      [] v.kind = "any" -> [err |-> FALSE, val |-> AnyValue("*anypb.Any")]
      [] v.kind = "group" ->
            IF \E k \in DOMAIN v.v : fromPBValue(v.v[k]).err
            THEN [err |-> TRUE, val |-> ZeroValue]
            ELSE [err |-> FALSE,
                  val |-> [kind |-> "Group",
                           v |-> omitEmptyGroups([k \in DOMAIN v.v |-> fromPBValue(v.v[k]).val])]]
      [] v.kind = "unset" -> [err |-> FALSE, val |-> ZeroValue]
      [] OTHER -> [err |-> TRUE, val |-> ZeroValue]

\* No record (the PC of one that Read made is 1).
NoRecord == [Time |-> ZeroTime, Level |-> LevelInfo, Message |-> "", PC |-> 0,
             Attrs |-> EmptyMap]

\* The body of Read's loop up to the call of fn, on the token b: [err, record].
\* The record's attrs are a mapping.
readRecord(b) ==
    LET u == Unmarshal(b)
        keys == DOMAIN u.rec.Attrs \ {""}
    IN  IF u.err THEN [err |-> "unmarshal", record |-> NoRecord]
        ELSE IF \E k \in keys : fromPBValue(u.rec.Attrs[k]).err
        THEN [err |-> "convert", record |-> NoRecord]
        ELSE [err |-> "nil",
              record |-> [Time |-> AsTime(u.rec.Time),
                          Level |-> fromPBLevel(u.rec.Level),
                          Message |-> u.rec.Message,
                          PC |-> 1,
                          Attrs |-> omitEmptyGroups(
                                        [k \in keys |-> fromPBValue(u.rec.Attrs[k]).val])]]

\* What reading back gives for what h.Handle(ctx, r) writes on the heap
\* (hs, gs, arrs): the outcome of Handle and, when it wrote a frame, the
\* record that Read makes of the frame's payload.
decoded(x) ==
    IF x.out = "ok" THEN [out |-> "ok", read |-> readRecord(x.writes[2].data)]
    ELSE [out |-> x.out, read |-> [err |-> "nil", record |-> NoRecord]]

Out(hs, gs, arrs, h, r) == decoded(handle(hs, gs, arrs, <<>>, 0, h, r))

\* h.Handle(ctx, r), start to end.
Handle(h, r) ==
    /\ ~crashed
    /\ \E x \in {handle(handlers, groups, arrays, pool, Len(calls) + 1, h, r)} :
           /\ groups' = x.groups
           /\ sink' = sink \o x.writes
           /\ pool' = x.pool
           /\ crashed' = (x.out = "overflow")
           /\ calls' = Append(calls, [h |-> h, r |-> r, out |-> x.out])
    /\ UNCHANGED <<handlers, arrays, derived, inflight>>
    /\ UNCHANGED rvars

\* A nil cel.Program.
NilProgram == [compiled |-> FALSE, expr |-> [op |-> "none", key |-> "", v |-> ""]]

\* The consumer has not been started.
CIdle ==
    /\ cpc = "start"
    /\ filterProg = NilProgram
    /\ emitted = <<>>
    /\ reports = <<>>

\* No token: the nil slice.
NoToken == [some |-> FALSE, b |-> Garbage(0)]

\* Read has not been called.
RIdle ==
    /\ src = <<>>
    /\ srcPos = 0
    /\ bufLen = 0
    /\ sStart = 0
    /\ sEnd = 0
    /\ sErr = "nil"
    /\ pc = "idle"
    /\ token = NoToken
    /\ cancelled = FALSE
    /\ stopAt = 0
    /\ delivered = <<>>
    /\ result = "none"
    /\ CIdle

Init == HInit /\ RIdle

Next ==
    \/ \E h \in 1..Len(handlers), attrs \in AttrLists :
          Len(handlers) < MaxHandlers /\ WithAttrs(h, attrs)
    \/ \E h \in 1..Len(handlers), name \in GroupNames :
          Len(handlers) < MaxHandlers /\ WithGroup(h, name)
    \/ \E h \in 1..Len(handlers), r \in Records :
          Len(calls) < MaxCalls /\ Handle(h, r)

Spec == Init /\ [][Next]_vars

-----------------------------------------------------------------------------
(* Properties of Handle, WithAttrs and WithGroup in one thread (Spec).    *)

\* The log calls the properties probe the handlers with.
Probes == {r \in Records : r.PC # 0}

\* The writes of call `id`, in the order the sink got them.
WritesOf(id) == SelectSeq(sink, LAMBDA w : w.call = id)

C5_DerivationLeavesHandlersAlone ==
    [][Len(derived') > Len(derived) =>
          \A h \in 1..Len(handlers) : \A r \in Probes :
              Out(handlers', groups', arrays', h, r) = Out(handlers, groups, arrays, h, r)]_vars

\* The handlers that h.WithGroup(s) returned for an h without an open group,
\* and from which nothing has been derived since.
PlainGroupHandlers ==
    {g \in 1..Len(handlers) :
        /\ derived[g].op = "WithGroup"
        /\ handlers[derived[g].from].group = 0
        /\ \A d \in 1..Len(derived) : derived[d].from # g}

\* C7: for a handler h without an open group, every log call with attributes
\* on h.WithGroup(s) produces the record that the same log call with the
\* single attribute Group(s, attributes) produces on h.
C7_WithGroupIsGroupAttr ==
    \A id \in 1..Len(calls) :
        (/\ calls[id].h \in PlainGroupHandlers
         /\ calls[id].r.PC # 0
         /\ calls[id].r.attrs # <<>>) =>
            /\ calls[id].out = "ok"
            /\ [out |-> "ok", read |-> readRecord(WritesOf(id)[2].data)]
                 = Out(handlers, groups, arrays, derived[calls[id].h].from,
                       [calls[id].r EXCEPT
                            !.attrs = <<Attr(derived[calls[id].h].arg,
                                             GroupValue(calls[id].r.attrs))>>])

\* C40: every handler, NewHandler's and those derived from it by WithAttrs
\* and WithGroup, is enabled for Info, Warn and Error, and a derived handler
\* has the level of the handler it was derived from.
C40_EnabledFromInfoUp ==
    \A h \in 1..Len(handlers) :
        /\ \A level \in {LevelInfo, LevelWarn, LevelError} : Enabled(handlers, h, level)
        /\ h > 1 => handlers[h].level = handlers[derived[h].from].level

-----------------------------------------------------------------------------
(* Handle in several threads: between its two writes a call can be         *)
(* overtaken (SpecConc).                                                   *)

MaxConcCalls == 3

\* NewHandler(w) and NewHandler(w).WithAttrs(a=b): two handlers, one sink.
ConcHandlers == withAttrs(<<NewHandler>>, <<>>, <<>>, 1, <<SlogString("a", "b")>>)

InitConc ==
    /\ handlers = ConcHandlers.handlers
    /\ groups = ConcHandlers.groups
    /\ arrays = ConcHandlers.arrays
    /\ derived = <<[op |-> "NewHandler", from |-> 0, arg |-> <<>>],
                   [op |-> "WithAttrs", from |-> 1, arg |-> <<SlogString("a", "b")>>]>>
    /\ sink = <<>>
    /\ pool = <<>>
    /\ calls = <<>>
    /\ crashed = FALSE
    /\ inflight = [t \in Threads |-> NoCall]
    /\ RIdle

\* Thread t runs h.Handle(ctx, r) up to and including the write of the
\* length prefix (to its end, when the call writes nothing).
HandleBegin(t, h, r) ==
    /\ ~crashed
    /\ inflight[t].id = 0
    /\ Len(calls) < MaxConcCalls
    /\ \E x \in {handle(handlers, groups, arrays, pool, Len(calls) + 1, h, r)} :
           /\ groups' = x.groups
           /\ crashed' = (x.out = "overflow")
           /\ calls' = Append(calls, [h |-> h, r |-> r, out |-> x.out])
           /\ IF x.out = "ok"
              THEN /\ sink' = Append(sink, x.writes[1])
                   /\ pool' = IF pool = <<>> THEN pool ELSE Tail(pool)
                   /\ inflight' = [inflight EXCEPT
                                      ![t] = [id |-> Len(calls) + 1, b |-> x.writes[2].data]]
              ELSE /\ sink' = sink
                   /\ pool' = x.pool
                   /\ inflight' = inflight
    /\ UNCHANGED <<handlers, arrays, derived>>
    /\ UNCHANGED rvars

\* Thread t runs the rest of its Handle: the write of the payload, and the
\* deferred Reset and Put.
HandleEnd(t) ==
    /\ inflight[t].id # 0
    /\ sink' = Append(sink, [call |-> inflight[t].id, kind |-> "msg", data |-> inflight[t].b])
    /\ pool' = Append(pool, BlankRecord)
    /\ inflight' = [inflight EXCEPT ![t] = NoCall]
    /\ UNCHANGED <<handlers, groups, arrays, calls, derived, crashed>>
    /\ UNCHANGED rvars

NextConc ==
    \/ \E t \in Threads, h \in 1..Len(handlers), r \in Records : HandleBegin(t, h, r)
    \/ \E t \in Threads : HandleEnd(t)

SpecConc == InitConc /\ [][NextConc]_vars

\* C4: with Handle called from several threads on handlers that share one
\* sink, the sink holds whole frames: what follows a call's length prefix in
\* the sink is that call's payload, never a write of another call.
C4_FramesAreNotInterleaved ==
    \A i \in 1..(Len(sink) - 1) :
        sink[i].kind = "len" =>
            (sink[i + 1].call = sink[i].call /\ sink[i + 1].kind = "msg")

-----------------------------------------------------------------------------
(* A chain of derivations, each from the handler the one before returned,  *)
(* and log calls on the end of the chain (SpecChain).                      *)

MaxChain == 5
MaxChainCalls == 1

ChainNames == {"G", "H"}

\* The log call of the scenarios: {e: "f"}.
LogEF == NewRecord(T1, LevelInfo, "msg", 1, <<SlogString("e", "f")>>)

ChainWithAttrs(attrs) ==
    /\ Len(handlers) < MaxChain
    /\ WithAttrs(Len(handlers), attrs)

ChainWithGroup(name) ==
    /\ Len(handlers) < MaxChain
    /\ WithGroup(Len(handlers), name)

ChainHandle(r) ==
    /\ Len(calls) < MaxChainCalls
    /\ Handle(Len(handlers), r)

NextChain ==
    \/ \E attrs \in AttrLists : ChainWithAttrs(attrs)
    \/ \E name \in ChainNames : ChainWithGroup(name)
    \/ ChainHandle(LogEF)

SpecChain == Init /\ [][NextChain]_vars

\* The derivations that made handler h, from NewHandler's on.
ChainOf(h) == [i \in 1..(h - 1) |-> [op |-> derived[i + 1].op, arg |-> derived[i + 1].arg]]

\* The record that Read makes of the frame that call `id` wrote.
ReadBack(id) == readRecord(WritesOf(id)[2].data)

\* A group as Read delivers it: the mapping of its attrs.
GroupOf(m) == [kind |-> "Group", v |-> m]

\* C6: WithGroup("G").WithGroup("H") and then logging {e: "f"} decodes to
\* {G: {H: {e: "f"}}}; WithAttrs(a=b).WithGroup("G").WithAttrs(c=d)
\* .WithGroup("H") and then logging {e: "f"} decodes to
\* {a: "b", G: {c: "d", H: {e: "f"}}}.
C6_NestedComposition ==
    (Len(calls) >= 1 /\ calls[1].r = LogEF) =>
        /\ ChainOf(calls[1].h) = <<[op |-> "WithGroup", arg |-> "G"],
                                   [op |-> "WithGroup", arg |-> "H"]>> =>
              /\ calls[1].out = "ok"
              /\ ReadBack(1).err = "nil"
              /\ ReadBack(1).record.Attrs =
                     ("G" :> GroupOf("H" :> GroupOf("e" :> StringValue("f"))))
        /\ ChainOf(calls[1].h) = <<[op |-> "WithAttrs", arg |-> <<SlogString("a", "b")>>],
                                   [op |-> "WithGroup", arg |-> "G"],
                                   [op |-> "WithAttrs", arg |-> <<SlogString("c", "d")>>],
                                   [op |-> "WithGroup", arg |-> "H"]>> =>
              /\ calls[1].out = "ok"
              /\ ReadBack(1).err = "nil"
              /\ ReadBack(1).record.Attrs =
                     ("a" :> StringValue("b")
                      @@ "G" :> GroupOf("c" :> StringValue("d")
                                        @@ "H" :> GroupOf("e" :> StringValue("f"))))

\* The second scenario has run: four derivations, then the log call.
C6_Witness ==
    /\ Len(calls) = 1
    /\ calls[1].out = "ok"
    /\ calls[1].h = 5
    /\ ChainOf(5) = <<[op |-> "WithAttrs", arg |-> <<SlogString("a", "b")>>],
                      [op |-> "WithGroup", arg |-> "G"],
                      [op |-> "WithAttrs", arg |-> <<SlogString("c", "d")>>],
                      [op |-> "WithGroup", arg |-> "H"]>>

\* C19: WithGroup("G").WithAttrs(c=d) and then logging {e: "f"} completes
\* and decodes to {G: {c: "d", e: "f"}}: neither c nor e is at the top level,
\* and G holds nothing else.
C19_AttrsUnderOpenGroup ==
    (/\ Len(calls) >= 1
     /\ calls[1].r = LogEF
     /\ ChainOf(calls[1].h) = <<[op |-> "WithGroup", arg |-> "G"],
                                [op |-> "WithAttrs", arg |-> <<SlogString("c", "d")>>]>>) =>
        /\ calls[1].out = "ok"
        /\ ~crashed
        /\ ReadBack(1).err = "nil"
        /\ ReadBack(1).record.Attrs =
               ("G" :> GroupOf("c" :> StringValue("d") @@ "e" :> StringValue("f")))

RECURSIVE Nested(_, _, _)

\* {names[i]: {names[i+1]: ... {names[k]: leaf}}}, as Read is to deliver it.
Nested(names, i, leaf) ==
    IF i > Len(names) THEN leaf
    ELSE names[i] :> GroupOf(Nested(names, i + 1, leaf))

\* C20: WithGroup(n1)...WithGroup(nk), k >= 1, and then logging {e: "f"}
\* decodes to {n1: {n2: ... {nk: {e: "f"}}}}: every group name of the chain,
\* in the order the groups were opened, and nothing else at any level.
C20_GroupsAtEveryDepth ==
    (/\ Len(calls) >= 1
     /\ calls[1].r = LogEF
     /\ calls[1].h > 1
     /\ \A i \in 1..(calls[1].h - 1) : ChainOf(calls[1].h)[i].op = "WithGroup") =>
        /\ calls[1].out = "ok"
        /\ ReadBack(1).err = "nil"
        /\ ReadBack(1).record.Attrs =
               Nested([i \in 1..(calls[1].h - 1) |-> ChainOf(calls[1].h)[i].arg], 1,
                      "e" :> StringValue("f"))

-----------------------------------------------------------------------------
(* Log calls with groups among their attributes, on handlers without an    *)
(* open group (SpecCall).                                                  *)

MaxCallHandlers == 2
MaxCallCalls == 1
MaxCallAttrs == 3

\* The attributes a log call is made of.
CallAttrs ==
    { SlogString("a", "b"),
      SlogString("e", "f"),
      SlogInt("n", 1),
      SlogGroup("", <<SlogString("c", "d")>>),
      SlogGroup("", <<SlogString("a", "x"), SlogGroup("P", <<SlogInt("q", 2)>>)>>),
      SlogGroup("G", <<>>) }

RECURSIVE SeqsUpTo(_, _)

\* The sequences of at most n elements of S.
SeqsUpTo(S, n) ==
    IF n = 0 THEN {<<>>}
    ELSE SeqsUpTo(S, n - 1) \cup {Append(q, x) : q \in {y \in SeqsUpTo(S, n - 1) : Len(y) = n - 1}, x \in S}

CallRecords == {NewRecord(T1, LevelInfo, "msg", 1, as) : as \in SeqsUpTo(CallAttrs, MaxCallAttrs)}

NextCall ==
    \/ \E attrs \in AttrLists :
          Len(handlers) < MaxCallHandlers /\ WithAttrs(1, attrs)
    \/ \E h \in 1..Len(handlers), r \in CallRecords :
          Len(calls) < MaxCallCalls /\ Handle(h, r)

SpecCall == Init /\ [][NextCall]_vars

RECURSIVE AsMapping(_)

\* A group's attrs (distinct non-empty keys, no empty group) as Read is to
\* deliver them: the mapping from each key to its value, groups likewise.
AsMapping(as) ==
    [k \in {as[i].Key : i \in 1..Len(as)} |->
        LET a == as[CHOOSE i \in 1..Len(as) : as[i].Key = k]
        IN  IF a.Value.kind = "Group" THEN GroupOf(AsMapping(a.Value.v)) ELSE a.Value]

RECURSIVE Flattened(_, _, _)

\* The mapping to expect of the attrs as[i..] of a log call, added in their
\* order to m: the children of an empty-named group in place of the group,
\* an empty group dropped.
Flattened(as, i, m) ==
    IF i > Len(as) THEN m
    ELSE IF as[i].Value.kind = "Group"
    THEN IF as[i].Value.v = <<>> THEN Flattened(as, i + 1, m)
         ELSE IF as[i].Key = "" THEN Flattened(as, i + 1, Merge(m, AsMapping(as[i].Value.v)))
         ELSE Flattened(as, i + 1, Put(m, as[i].Key, GroupOf(AsMapping(as[i].Value.v))))
    ELSE Flattened(as, i + 1, Put(m, as[i].Key, as[i].Value))

\* The attributes that the handler of call `id` got from WithAttrs.
AttachedTo(id) == IF calls[id].h = 1 THEN <<>> ELSE derived[calls[id].h].arg

\* C8: a log call on a handler without an open group with an empty-named
\* group {c: "d"} between a=b and e=f decodes to {a: "b", c: "d", e: "f"};
\* in general the children of an empty-named group of the call are top-level
\* attributes of the decoded record, where the later of two attributes with
\* one key stands, and the empty key is no key of the record.
C8_EmptyNamedGroupIsInlined ==
    \A id \in 1..Len(calls) :
        /\ calls[id].out = "ok"
        /\ ReadBack(id).err = "nil"
        /\ "" \notin DOMAIN ReadBack(id).record.Attrs
        /\ ReadBack(id).record.Attrs
              = Flattened(calls[id].r.attrs, 1, Flattened(AttachedTo(id), 1, EmptyMap))
        /\ (calls[id].h = 1
              /\ calls[id].r.attrs = <<SlogString("a", "b"),
                                       SlogGroup("", <<SlogString("c", "d")>>),
                                       SlogString("e", "f")>>) =>
                ReadBack(id).record.Attrs
                  = ("a" :> StringValue("b") @@ "c" :> StringValue("d") @@ "e" :> StringValue("f"))

\* The log call of the example has been made on NewHandler's handler.
C8_Witness ==
    /\ Len(calls) = 1
    /\ calls[1].h = 1
    /\ calls[1].out = "ok"
    /\ calls[1].r.attrs = <<SlogString("a", "b"),
                            SlogGroup("", <<SlogString("c", "d")>>),
                            SlogString("e", "f")>>

\* C9: when a log call passes a named group without attributes among other
\* attributes, the decoded record has the other attributes (each named
\* scalar under its key) and no key with the group's name.
C9_EmptyGroupIsDropped ==
    \A id \in 1..Len(calls) :
        \A i \in 1..Len(calls[id].r.attrs) :
            (calls[id].r.attrs[i].Key # "" /\ isEmptyGroup(calls[id].r.attrs[i].Value)) =>
                /\ calls[id].out = "ok"
                /\ ReadBack(id).err = "nil"
                /\ calls[id].r.attrs[i].Key \notin DOMAIN ReadBack(id).record.Attrs
                /\ \A j \in 1..Len(calls[id].r.attrs) :
                       (calls[id].r.attrs[j].Key # ""
                          /\ calls[id].r.attrs[j].Value.kind # "Group") =>
                            calls[id].r.attrs[j].Key \in DOMAIN ReadBack(id).record.Attrs

\* A log call with the empty group G between two other attributes was made.
C9_Witness ==
    /\ Len(calls) = 1
    /\ calls[1].out = "ok"
    /\ calls[1].r.attrs = <<SlogString("a", "b"), SlogGroup("G", <<>>), SlogString("e", "f")>>
    /\ DOMAIN ReadBack(1).record.Attrs = {"a", "e"}

-----------------------------------------------------------------------------
(* read.go: Read over a bufio.Scanner (SpecRead).                          *)

\* bufio: the size of the scanner's first buffer, and the size its buffer
\* does not grow beyond.
startBufSize == 4096
MaxScanTokenSize == 65536

\* The stream is a sequence of segments: each the bytes `len` of a length
\* prefix followed by the first n bytes of the payload msg. All but the last
\* are whole frames (4 bytes of prefix, all the bytes of the payload).
Frame(b) == [len |-> PutUint32(b.size), msg |-> b, n |-> b.size]

SegSize(seg) == Len(seg.len) + seg.n

RECURSIVE Offset(_, _)

\* How many bytes of the stream come before its i-th segment.
Offset(strm, i) == IF i <= 1 THEN 0 ELSE Offset(strm, i - 1) + SegSize(strm[i - 1])

Size(strm) == Offset(strm, Len(strm) + 1)

\* The bytes that sequential Handle calls wrote to the sink, as a stream.
StreamOf(ws) == [i \in 1..(Len(ws) \div 2) |-> Frame(ws[2 * i].data)]

\* The split function that Read gives the scanner, on data = the `avail`
\* bytes of the stream from the start of its i-th segment on.
split(strm, i, avail, atEOF, ctxErr) ==
    IF ctxErr THEN [advance |-> 0, token |-> NoToken, err |-> "ctx"]
    ELSE IF atEOF THEN [advance |-> 0, token |-> NoToken, err |-> "nil"]
    ELSE IF avail < 4 THEN [advance |-> 0, token |-> NoToken, err |-> "nil"]
    ELSE IF avail < Uint32(strm[i].len) + 4
    THEN [advance |-> 0, token |-> NoToken, err |-> "nil"]
    ELSE [advance |-> Uint32(strm[i].len) + 4,
          token |-> [some |-> TRUE, b |-> strm[i].msg],
          err |-> "nil"]

\* (*Scanner).setErr: the first error that is not io.EOF stays.
setErr(old, err) == IF old = "nil" \/ old = "EOF" THEN err ELSE old

\* The returns in the other order: the scanner's error before the context's.
readReturnScanErrFirst(ctxErr, scanErr) ==
    IF scanErr # "nil" /\ scanErr # "EOF" THEN "scan"
    ELSE IF ctxErr THEN "ctx"
    ELSE "nil"

\* The end of Read when its loop is left without a decoding error: the
\* context's error, else the scanner's (io.EOF is none), else nil.
readReturn(ctxErr, scanErr) ==
    IF ctxErr THEN "ctx"
    ELSE IF scanErr # "nil" /\ scanErr # "EOF" THEN "scan"
    ELSE "nil"

\* Read goes on scanning whatever fn returned.
afterCallNeverBreaks(ok, ctxErr, scanErr) == [pc |-> "scan", result |-> "none"]

\* Read once fn has returned ok: the loop goes on, or is left ("break") and
\* Read returns.
afterCall(ok, ctxErr, scanErr) ==
    IF ok THEN [pc |-> "scan", result |-> "none"]
    ELSE [pc |-> "done", result |-> readReturn(ctxErr, scanErr)]

\* The segment of the stream at which the scanner's unconsumed bytes start.
AtSegment ==
    CHOOSE i \in 1..(Len(src) + 1) : Offset(src, i) = srcPos - (sEnd - sStart)

\* Read: scanner.Scan() looks for a token in the bytes it holds. With one it
\* returns true; without one it reads on, or returns false when the input is
\* over or the split function returned an error, and Read leaves its loop.
ScanSplit ==
    /\ pc = "scan"
    /\ IF sEnd > sStart \/ sErr # "nil"
       THEN \E sp \in {split(src, AtSegment, sEnd - sStart, sErr # "nil", cancelled)} :
              IF sp.err # "nil"
              THEN \* s.setErr(err): Scan returns false
                   /\ sErr' = setErr(sErr, sp.err)
                   /\ pc' = "done"
                   /\ result' = readReturn(cancelled, setErr(sErr, sp.err))
                   /\ UNCHANGED <<sStart, sEnd, token>>
              ELSE IF sp.token.some
              THEN \* Scan returns true
                   /\ sStart' = sStart + sp.advance
                   /\ token' = sp.token
                   /\ pc' = "body"
                   /\ UNCHANGED <<sEnd, sErr, result>>
              ELSE IF sErr # "nil"
              THEN \* no token and the input is over: Scan returns false
                   /\ sStart' = 0
                   /\ sEnd' = 0
                   /\ pc' = "done"
                   /\ result' = readReturn(cancelled, sErr)
                   /\ UNCHANGED <<sErr, token>>
              ELSE /\ pc' = "fill"
                   /\ UNCHANGED <<sStart, sEnd, sErr, token, result>>
       ELSE /\ pc' = "fill"
            /\ UNCHANGED <<sStart, sEnd, sErr, token, result>>
    /\ UNCHANGED <<src, srcPos, bufLen, cancelled, stopAt, delivered>>
    /\ UNCHANGED <<hvars, inflight, cvars>>

\* Read: Scan has returned true. The loop's condition looks at the context;
\* then the body of the loop decodes the token and calls fn on the record,
\* of which `goOn` is what fn returns.
ReadBodyWith(goOn) ==
    /\ pc = "body"
    /\ token' = NoToken
    /\ IF cancelled
       THEN /\ pc' = "done"
            /\ result' = readReturn(cancelled, sErr)
            /\ UNCHANGED delivered
       ELSE \E rr \in {readRecord(token.b)} :
              IF rr.err # "nil"
              THEN /\ pc' = "done"
                   /\ result' = rr.err
                   /\ UNCHANGED delivered
              ELSE /\ delivered' = Append(delivered, rr.record)
                   /\ pc' = afterCall(goOn, cancelled, sErr).pc
                   /\ result' = afterCall(goOn, cancelled, sErr).result
    /\ UNCHANGED <<src, srcPos, bufLen, sStart, sEnd, sErr, cancelled, stopAt>>
    /\ UNCHANGED <<hvars, inflight>>

\* Read with a callback that returns false at its stopAt-th invocation.
ReadBody ==
    /\ ReadBodyWith(stopAt # Len(delivered) + 1)
    /\ UNCHANGED cvars

MaxFrames == 2
MaxChunk == 4

Min(a, b) == IF a < b THEN a ELSE b

\* The scanner's buffer before it reads: [start, end, len, err]. The bytes
\* it holds are moved to the front when "there's lots of empty space or space
\* is needed", and a full buffer is doubled up to MaxScanTokenSize, beyond
\* which the scanner gives up with ErrTooLong.
makeRoom(start, end, len) ==
    LET shift == start > 0 /\ (end = len \/ start > len \div 2)
        start1 == IF shift THEN 0 ELSE start
        end1 == IF shift THEN end - start ELSE end
    IN  IF end1 # len THEN [start |-> start1, end |-> end1, len |-> len, err |-> "nil"]
        ELSE IF len >= MaxScanTokenSize
        THEN [start |-> start1, end |-> end1, len |-> len, err |-> "ErrTooLong"]
        ELSE [start |-> 0, end |-> end1 - start1,
              len |-> Min(IF len = 0 THEN startBufSize ELSE len * 2, MaxScanTokenSize),
              err |-> "nil"]

\* Read: scanner.Scan() makes room in its buffer and reads from the source,
\* which gives n more bytes of the stream and, when eof, io.EOF with them.
ScanFill(n, eof) ==
    /\ pc = "fill"
    /\ \E m \in {makeRoom(sStart, sEnd, bufLen)} :
          IF m.err # "nil"
          THEN /\ sErr' = setErr(sErr, m.err)
               /\ sStart' = m.start
               /\ sEnd' = m.end
               /\ pc' = "done"
               /\ result' = readReturn(cancelled, setErr(sErr, m.err))
               /\ UNCHANGED <<srcPos, bufLen>>
          ELSE /\ n <= m.len - m.end
               /\ n <= Size(src) - srcPos
               /\ n > 0 \/ eof
               /\ eof => srcPos + n = Size(src)
               /\ sStart' = m.start
               /\ sEnd' = m.end + n
               /\ bufLen' = m.len
               /\ srcPos' = srcPos + n
               /\ sErr' = IF eof THEN setErr(sErr, "EOF") ELSE sErr
               /\ pc' = "scan"
               /\ UNCHANGED result
    /\ UNCHANGED <<src, token, cancelled, stopAt, delivered>>
    /\ UNCHANGED <<hvars, inflight, cvars>>

\* The context is cancelled while Read runs.
Cancel ==
    /\ pc \in {"scan", "fill", "body", "decode"}
    /\ ~cancelled
    /\ cancelled' = TRUE
    /\ UNCHANGED <<src, srcPos, bufLen, sStart, sEnd, sErr, pc, token, stopAt, delivered,
                   result>>
    /\ UNCHANGED <<hvars, inflight, cvars>>

T2 == UnixTime(1700000001)

\* The records written to the streams that are read.
ReadRecords ==
    { NewRecord(T1, LevelInfo, "msg", 1, <<SlogString("test", "x")>>),
      NewRecord(T2, LevelWarn, "m", 1,
                <<SlogString("a", "b"), SlogInt("n", 1),
                  SlogGroup("G", <<Attr("c", BoolValue(TRUE)),
                                   SlogGroup("H", <<Attr("q", DurationValue(1500000000)),
                                                    Attr("t", TimeValue(T1))>>)>>)>>),
      NewRecord(T1, LevelError, "", 1, <<Attr("u", Uint64Value(7)), Attr("x", Float64Value(3))>>),
      NewRecord(T2, LevelDebug, "dbg", 1, <<>>),
      NewRecord(ZeroTime, LevelInfo, "z", 1, <<SlogString("e", "f")>>) }

\* The payload of a record that no Handle call of the model wrote.
LatePayload == Marshal([BlankRecord EXCEPT !.Message = "late", !.Level = Level_Info], <<>>).b

\* What can follow the frames in a stream: nothing, 2 bytes of a prefix, a
\* prefix and 3 of the 9 bytes it announces, a frame whose payload is not the
\* wire form of a Record, and such a frame with a whole frame after it.
Tails ==
    { <<>>,
      <<[len |-> <<9, 0>>, msg |-> Garbage(9), n |-> 0]>>,
      <<[len |-> PutUint32(9), msg |-> Garbage(9), n |-> 3]>>,
      <<Frame(Garbage(2))>>,
      <<Frame(Garbage(2)), Frame(LatePayload)>> }

RECURSIVE WriteAll(_, _, _)

\* NewHandler's handler handles rs[i..] in turn, from st = [sink, pool, calls].
WriteAll(rs, i, st) ==
    IF i > Len(rs) THEN st
    ELSE WriteAll(rs, i + 1,
                  LET x == handle(<<NewHandler>>, <<>>, <<>>, st.pool, Len(st.calls) + 1, 1, rs[i])
                  IN  [sink |-> st.sink \o x.writes,
                       pool |-> x.pool,
                       calls |-> Append(st.calls, [h |-> 1, r |-> rs[i], out |-> x.out])])

\* Records have been written to a sink, one after the other, and Read is
\* called on a stream that starts with the sink's bytes.
InitRead ==
    \E rs \in SeqsUpTo(ReadRecords, MaxFrames), tail \in Tails, k \in 0..MaxFrames :
        \E w \in {WriteAll(rs, 1, [sink |-> <<>>, pool |-> <<>>, calls |-> <<>>])} :
            /\ handlers = <<NewHandler>>
            /\ groups = <<>>
            /\ arrays = <<>>
            /\ derived = <<[op |-> "NewHandler", from |-> 0, arg |-> <<>>]>>
            /\ crashed = FALSE
            /\ inflight = [t \in Threads |-> NoCall]
            /\ sink = w.sink
            /\ pool = w.pool
            /\ calls = w.calls
            /\ src = StreamOf(w.sink) \o tail
            /\ srcPos = 0
            /\ bufLen = 0
            /\ sStart = 0
            /\ sEnd = 0
            /\ sErr = "nil"
            /\ pc = "scan"
            /\ token = NoToken
            /\ cancelled = FALSE
            /\ stopAt = k
            /\ delivered = <<>>
            /\ result = "none"
            /\ CIdle

\* The sizes of the reads: up to MaxChunk bytes, or all that there is (and
\* that the buffer has room for).
ChunkSizes ==
    {n \in 0..Size(src) : n <= MaxChunk \/ n = Size(src) - srcPos}

NextRead ==
    \/ ScanSplit
    \/ ReadBody
    \/ \E n \in ChunkSizes, eof \in BOOLEAN : ScanFill(n, eof)
    \/ Cancel

SpecRead == InitRead /\ [][NextRead]_vars

-----------------------------------------------------------------------------
(* Properties of Read (SpecRead).                                         *)

\* The stream is what the Handle calls wrote, and nothing else.
WholeStream == src = StreamOf(sink)

\* C1: when the records written by N sequential Handle calls are read with a
\* callback that always returns true and a context that is never cancelled,
\* then however the source hands out the bytes, the callback is invoked N
\* times, the i-th time with the record of the i-th frame, and Read returns
\* nil.
C1_AllRecordsAreDelivered ==
    (pc = "done" /\ WholeStream /\ stopAt = 0 /\ ~cancelled) =>
        /\ result = "nil"
        /\ Len(delivered) = Len(calls)
        /\ \A i \in 1..Len(delivered) : delivered[i] = ReadBack(i).record

SupportedScalars == {"Bool", "Duration", "Float64", "Int64", "String", "Time", "Uint64"}

RECURSIVE SupportedAttrs(_)

\* A finite tree of attributes of supported kinds: the keys not empty and
\* distinct, every value a scalar or a group that is not empty.
SupportedAttrs(as) ==
    /\ \A i \in 1..Len(as) : as[i].Key # ""
    /\ \A i, j \in 1..Len(as) : as[i].Key = as[j].Key => i = j
    /\ \A i \in 1..Len(as) :
          \/ as[i].Value.kind \in SupportedScalars
          \/ /\ as[i].Value.kind = "Group"
             /\ as[i].Value.v # <<>>
             /\ SupportedAttrs(as[i].Value.v)

C10_EarlyStop ==
    (stopAt > 0 /\ Len(delivered) >= stopAt) =>
        /\ pc = "done"
        /\ result = "nil"
        /\ Len(delivered) = stopAt

\* The callback returned false for the first record of a stream in which a
\* frame and bytes that are no record follow.
C10_Witness ==
    /\ stopAt = 1
    /\ Len(delivered) = 1
    /\ pc = "done"
    /\ Len(src) = 3
    /\ ~src[3].msg.ok

\* C11: once the context is cancelled, no step of Read decodes or delivers a
\* frame (the split function and the loop's condition look at the context
\* before a frame is extracted and before a payload is decoded), and Read,
\* when it stops, returns the context's error: no scan error, no decode error.
C11_CancellationStopsRead ==
    [][cancelled =>
          /\ delivered' = delivered
          /\ pc' = "done" => result' = "ctx"]_vars

\* The context was cancelled after the scanner had extracted the first frame
\* and before its payload was decoded: Read stopped without delivering it.
C11_Witness ==
    /\ cancelled
    /\ pc = "done"
    /\ result = "ctx"
    /\ sStart > 0
    /\ delivered = <<>>
    /\ src[1].msg.ok

\* The stream ends within a frame: its last segment has fewer than 4 bytes
\* of prefix, or fewer bytes of payload than its prefix declares.
Truncated ==
    /\ Len(src) > 0
    /\ \/ Len(src[Len(src)].len) < 4
       \/ src[Len(src)].n < src[Len(src)].msg.size

\* C12: when the input ends (the callback never stops Read, the context is
\* not cancelled) while the stream ends within a frame, so that bytes remain
\* that form no complete frame, Read returns an error: it returns nil at the
\* end of the input only when no such bytes remain.
C12_TruncationIsAnError ==
    (pc = "done" /\ sErr = "EOF" /\ stopAt = 0 /\ ~cancelled /\ Truncated) => result # "nil"

\* C13: a payload that fails to decode ends Read. Every record delivered is
\* what its frame decodes to, frame by frame from the first, each once; and
\* when the decoding of the j-th frame has failed, Read has returned that
\* error, frames 1..j-1 were delivered, and neither frame j nor a later one
\* is (Read takes no further step).
C13_DecodeFailureIsFatal ==
    /\ Len(delivered) <= Len(src)
    /\ \A i \in 1..Len(delivered) :
          /\ src[i].msg.ok
          /\ readRecord(src[i].msg).err = "nil"
          /\ delivered[i] = readRecord(src[i].msg).record
    /\ result \in {"unmarshal", "convert"} =>
          /\ pc = "done"
          /\ Len(delivered) < Len(src)
          /\ readRecord(src[Len(delivered) + 1].msg).err = result
          /\ result = "unmarshal" <=> ~src[Len(delivered) + 1].msg.ok

\* The second frame of three failed to decode: Read returned the error after
\* one delivery, with a whole frame left in the stream.
C13_Witness ==
    /\ result = "unmarshal"
    /\ pc = "done"
    /\ Len(delivered) = 1
    /\ Len(src) = 3
    /\ ~src[2].msg.ok
    /\ src[3].msg.ok

\* C27: a record written with the zero Time is delivered by Read with the
\* zero Time, and with another time than every record that was written with
\* a time that is not the zero Time.
C27_AbsentTimeStaysAbsent ==
    \A i \in 1..Len(delivered) :
        (i <= Len(calls) /\ IsZero(calls[i].r.Time)) =>
            /\ IsZero(delivered[i].Time)
            /\ \A r \in ReadRecords \cup {NewRecord(UnixTime(0), LevelInfo, "epoch", 1, <<>>)} :
                  ~IsZero(r.Time) =>
                      delivered[i].Time # readRecord(handle(<<NewHandler>>, <<>>, <<>>, <<>>, 0, 1, r).writes[2].data).record.Time

\* C35: when Read has seen the end of the input and returned nil, with a
\* callback that always returns true and a context that is not cancelled,
\* every frame that the Handle calls wrote was delivered, also when the
\* source gave its last bytes together with the end of the input.
C35_NoFrameLostAtEndOfInput ==
    (/\ pc = "done"
     /\ sErr = "EOF"
     /\ srcPos = Size(src)
     /\ result = "nil"
     /\ stopAt = 0
     /\ ~cancelled) =>
        /\ Len(delivered) >= Len(calls)
        /\ \A i \in 1..Len(calls) : delivered[i] = ReadBack(i).record

-----------------------------------------------------------------------------
(* The filter (CompileFilter, EvalFilter) and the slp command that reads a  *)
(* stream and writes the records its filter selects (SpecConsumer).        *)

\* A filter expression is [op, key, v]:
\*   "empty"    the empty string
\*   "syntax"   text that does not parse, as `level ==`
\*   "illtyped" text that parses and does not type-check, as `msg == 1`
\*   "string"   a string literal, as `"abc"`
\*   "attr"     `attrs.<key>`, of type dyn
\*   "true"     `true`
\*   "levelEq"  `level == "<v>"`
\*   "msgEq"    `msg == "<v>"`
\*   "attrEq"   `attrs.<key> == "<v>"`
\*   "childEq"  `attrs.<key>.c == "<v>"`
Expr(op, key, v) == [op |-> op, key |-> key, v |-> v]

\* env.Compile(expr): the expression parses and type-checks.
Compiles(expr) == expr.op \notin {"empty", "syntax", "illtyped"}

\* checked.OutputType().DeclaredTypeName().
OutputType(expr) ==
    CASE expr.op \in {"true", "levelEq", "msgEq", "attrEq", "childEq"} -> "bool"
      [] expr.op = "string" -> "string"
      [] OTHER -> "dyn"

\* CompileFilter without the test of the output type.
CompileFilterAnyOutputType(expr) ==
    IF ~Compiles(expr) THEN [err |-> TRUE, prog |-> NilProgram]
    ELSE [err |-> FALSE, prog |-> [compiled |-> TRUE, expr |-> expr]]

\* CompileFilter(expr): [err, prog].
CompileFilter(expr) ==
    IF ~Compiles(expr) THEN [err |-> TRUE, prog |-> NilProgram]
    ELSE IF OutputType(expr) # "bool" THEN [err |-> TRUE, prog |-> NilProgram]
    ELSE [err |-> FALSE, prog |-> [compiled |-> TRUE, expr |-> expr]]

\* slog.Level.String() of the levels that Read delivers.
LevelString(l) ==
    CASE l = LevelDebug -> "DEBUG"
      [] l = LevelInfo -> "INFO"
      [] l = LevelWarn -> "WARN"
      [] l = LevelError -> "ERROR"
      [] OTHER -> "OTHER"

\* slog.Value.Any(): the Go value, by its type; a group's is its []slog.Attr.
ValueAny(value) ==
    CASE value.kind = "String" -> [type |-> "string", v |-> value.v]
      [] value.kind = "Int64" -> [type |-> "int64", v |-> value.v]
      [] value.kind = "Uint64" -> [type |-> "uint64", v |-> value.v]
      [] value.kind = "Float64" -> [type |-> "float64", v |-> value.v]
      [] value.kind = "Bool" -> [type |-> "bool", v |-> value.v]
      [] value.kind = "Duration" -> [type |-> "time.Duration", v |-> value.v]
      [] value.kind = "Time" -> [type |-> "time.Time", v |-> value.v]
      [] value.kind = "Group" -> [type |-> "[]slog.Attr", v |-> value.v]
      [] OTHER -> [type |-> "any", v |-> value.v]

\* The attrsMap that EvalFilter builds of the record's attrs.
attrsMap(r) == [k \in DOMAIN r.Attrs |-> ValueAny(r.Attrs[k])]

\* prog.Eval on the four variables: [val, err]. The selection of a key that
\* the map does not hold is an error, and so is the selection of a field in
\* what is not a map; values of different types are not equal.
Eval(expr, r) ==
    CASE expr.op = "true" -> [val |-> TRUE, err |-> FALSE]
      [] expr.op = "levelEq" -> [val |-> LevelString(r.Level) = expr.v, err |-> FALSE]
      [] expr.op = "msgEq" -> [val |-> r.Message = expr.v, err |-> FALSE]
      [] expr.op = "attrEq" ->
            IF expr.key \notin DOMAIN attrsMap(r) THEN [val |-> FALSE, err |-> TRUE]
            ELSE [val |-> attrsMap(r)[expr.key].type = "string"
                            /\ attrsMap(r)[expr.key].v = expr.v,
                  err |-> FALSE]
      [] expr.op = "childEq" ->
            IF expr.key \notin DOMAIN attrsMap(r) THEN [val |-> FALSE, err |-> TRUE]
            ELSE IF attrsMap(r)[expr.key].type # "map[string]any"
            THEN [val |-> FALSE, err |-> TRUE]
            ELSE IF "c" \notin DOMAIN attrsMap(r)[expr.key].v
            THEN [val |-> FALSE, err |-> TRUE]
            ELSE [val |-> attrsMap(r)[expr.key].v["c"].type = "string"
                            /\ attrsMap(r)[expr.key].v["c"].v = expr.v,
                  err |-> FALSE]
      [] OTHER -> [val |-> FALSE, err |-> TRUE]

\* EvalFilter(prog, r): [val, err].
EvalFilter(prog, r) ==
    IF ~prog.compiled THEN [val |-> FALSE, err |-> FALSE]
    ELSE Eval(prog.expr, r)

\* The callback going on to the next record after an evaluation error.
callbackSkipsOnError(prog, r) ==
    IF EvalFilter(prog, r).err THEN [ok |-> TRUE, emit |-> FALSE, report |-> TRUE]
    ELSE [ok |-> TRUE, emit |-> EvalFilter(prog, r).val, report |-> FALSE]

\* The callback that the command gives Read: [ok (what it returns), emit
\* (it writes the record), report (it reports an evaluation error)].
callback(prog, r) ==
    IF EvalFilter(prog, r).err THEN [ok |-> FALSE, emit |-> FALSE, report |-> TRUE]
    ELSE [ok |-> TRUE, emit |-> EvalFilter(prog, r).val, report |-> FALSE]

\* The expressions given to the command.
Filters ==
    { Expr("empty", "", ""),
      Expr("syntax", "", ""),
      Expr("illtyped", "", ""),
      Expr("string", "", "abc"),
      Expr("attr", "test", ""),
      Expr("true", "", ""),
      Expr("levelEq", "", "WARN"),
      Expr("msgEq", "", "msg"),
      Expr("attrEq", "test", "x"),
      Expr("childEq", "G", "d") }

\* The command that compiles its filter only when one is given (a panic on
\* an error), and then calls Read.
MainStart(expr) ==
    /\ cpc = "start"
    /\ pc = "idle"
    /\ IF expr.op # "empty" /\ CompileFilter(expr).err
       THEN /\ cpc' = "failed"
            /\ reports' = Append(reports, "compile")
            /\ UNCHANGED <<filterProg, pc>>
       ELSE /\ filterProg' = IF expr.op # "empty" THEN CompileFilter(expr).prog
                             ELSE filterProg
            /\ cpc' = "reading"
            /\ pc' = "scan"
            /\ UNCHANGED reports
    /\ UNCHANGED <<src, srcPos, bufLen, sStart, sEnd, sErr, token, cancelled, stopAt,
                   delivered, result, emitted>>
    /\ UNCHANGED <<hvars, inflight>>

\* rootCmd.RunE: the command that always compiles the value of its filter
\* flag (returning the error), and then calls Read.
RunEStart(expr) ==
    /\ cpc = "start"
    /\ pc = "idle"
    /\ IF CompileFilter(expr).err
       THEN /\ cpc' = "failed"
            /\ reports' = Append(reports, "compile")
            /\ UNCHANGED <<filterProg, pc>>
       ELSE /\ filterProg' = CompileFilter(expr).prog
            /\ cpc' = "reading"
            /\ pc' = "scan"
            /\ UNCHANGED reports
    /\ UNCHANGED <<src, srcPos, bufLen, sStart, sEnd, sErr, token, cancelled, stopAt,
                   delivered, result, emitted>>
    /\ UNCHANGED <<hvars, inflight>>

\* Read's loop body with the command's callback.
ConsumerBody ==
    /\ cpc = "reading"
    /\ ReadBodyWith(callback(filterProg, readRecord(token.b).record).ok)
    /\ IF Len(delivered') > Len(delivered)
       THEN \E c \in {callback(filterProg, delivered'[Len(delivered')])} :
              /\ emitted' = IF c.emit THEN Append(emitted, delivered'[Len(delivered')])
                            ELSE emitted
              /\ reports' = IF c.report THEN Append(reports, "eval") ELSE reports
       ELSE UNCHANGED <<emitted, reports>>
    /\ UNCHANGED <<cpc, filterProg>>

\* Read has returned: the command reports its error and ends.
ConsumerEnd ==
    /\ cpc = "reading"
    /\ pc = "done"
    /\ cpc' = "exit"
    /\ reports' = IF result # "nil" THEN Append(reports, "read") ELSE reports
    /\ UNCHANGED <<filterProg, emitted>>
    /\ UNCHANGED <<src, srcPos, bufLen, sStart, sEnd, sErr, pc, token, cancelled, stopAt,
                   delivered, result>>
    /\ UNCHANGED <<hvars, inflight>>

\* The records of the streams given to the command.
ConsumerRecords ==
    { NewRecord(T1, LevelInfo, "msg", 1, <<SlogString("test", "x")>>),
      NewRecord(T2, LevelWarn, "m", 1,
                <<SlogString("a", "b"), SlogGroup("G", <<SlogString("c", "d")>>)>>),
      NewRecord(T2, LevelDebug, "dbg", 1, <<SlogString("test", "y")>>) }

\* Records have been written to a sink, and the command is to read them.
InitConsumer ==
    \E rs \in SeqsUpTo(ConsumerRecords, MaxFrames) :
        \E w \in {WriteAll(rs, 1, [sink |-> <<>>, pool |-> <<>>, calls |-> <<>>])} :
            /\ handlers = <<NewHandler>>
            /\ groups = <<>>
            /\ arrays = <<>>
            /\ derived = <<[op |-> "NewHandler", from |-> 0, arg |-> <<>>]>>
            /\ crashed = FALSE
            /\ inflight = [t \in Threads |-> NoCall]
            /\ sink = w.sink
            /\ pool = w.pool
            /\ calls = w.calls
            /\ src = StreamOf(w.sink)
            /\ srcPos = 0
            /\ bufLen = 0
            /\ sStart = 0
            /\ sEnd = 0
            /\ sErr = "nil"
            /\ pc = "idle"
            /\ token = NoToken
            /\ cancelled = FALSE
            /\ stopAt = 0
            /\ delivered = <<>>
            /\ result = "none"
            /\ CIdle

NextConsumer ==
    \/ \E expr \in Filters : MainStart(expr)
    \/ \E expr \in Filters : RunEStart(expr)
    \/ ScanSplit
    \/ \E n \in ChunkSizes, eof \in BOOLEAN : ScanFill(n, eof)
    \/ ConsumerBody
    \/ ConsumerEnd

SpecConsumer == InitConsumer /\ [][NextConsumer]_vars

\* C14: EvalFilter with no program selects every record: it returns true and
\* no error, so that the command, given no filter, writes every record that
\* Read delivers to it.
C14_NilProgramSelectsAll ==
    filterProg = NilProgram =>
        /\ \A i \in 1..Len(delivered) :
              EvalFilter(filterProg, delivered[i]) = [val |-> TRUE, err |-> FALSE]
        /\ emitted = delivered

C18_CompileErrorComesFirst ==
    [][/\ cpc # "failed"
       /\ cpc' = "failed" =>
             /\ cpc = "start"
             /\ reports' = <<"compile">>
             /\ pc' = "idle" /\ srcPos' = 0 /\ result' = "none"
             /\ delivered' = <<>>
             /\ emitted' = <<>>
       /\ (cpc = "start" /\ cpc' = "reading") =>
             \/ filterProg' = NilProgram
             \/ /\ filterProg'.compiled
                /\ Compiles(filterProg'.expr)
                /\ OutputType(filterProg'.expr) = "bool"]_vars

\* The command has ended on a compile error with two records waiting on its
\* input.
C18_Witness ==
    /\ cpc = "failed"
    /\ reports = <<"compile">>
    /\ Len(src) = 2
    /\ pc = "idle"
    /\ emitted = <<>>

\* C33: EvalFilter returns the error of an evaluation that fails (the key
\* selected is not in attrs), and the command stops reading at the record
\* whose evaluation fails: that record is the last one delivered, it is not
\* emitted, the error is reported once, and Read has returned.
C33_EvalErrorStopsTheRead ==
    /\ \A r \in {readRecord(sink[i].data).record :
                    i \in {j \in 1..Len(sink) : sink[j].kind = "msg"}} :
          "test" \notin DOMAIN r.Attrs =>
              EvalFilter(CompileFilter(Expr("attrEq", "test", "x")).prog, r)
                = [val |-> FALSE, err |-> TRUE]
    /\ \A i \in 1..Len(delivered) :
          EvalFilter(filterProg, delivered[i]).err =>
              /\ i = Len(delivered)
              /\ pc = "done"
              /\ reports \in {<<"eval">>, <<"eval", "read">>}
    /\ emitted = SelectSeq(delivered, LAMBDA r : /\ ~EvalFilter(filterProg, r).err
                                                 /\ EvalFilter(filterProg, r).val)
    /\ (\A i \in 1..Len(delivered) : ~EvalFilter(filterProg, delivered[i]).err) =>
          \A i \in 1..Len(reports) : reports[i] # "eval"

\* The evaluation failed on the first of two records: it was not emitted,
\* the second was not delivered, and the command has ended.
C33_Witness ==
    /\ Len(calls) = 2
    /\ Len(delivered) = 1
    /\ emitted = <<>>
    /\ EvalFilter(filterProg, delivered[1]).err
    /\ "eval" \in {reports[i] : i \in 1..Len(reports)}
    /\ cpc = "exit"

\* C34: in the attrs that EvalFilter gives the program, a group is a map of
\* its children, so that the filter `attrs.G.c == "d"` selects the records
\* whose group G has c = "d": the command emits each of them.
C34_GroupsAreMapsInAttrs ==
    (filterProg.compiled /\ filterProg.expr = Expr("childEq", "G", "d")) =>
        \A i \in 1..Len(delivered) :
            (/\ "G" \in DOMAIN delivered[i].Attrs
             /\ delivered[i].Attrs["G"] = GroupOf("c" :> StringValue("d"))) =>
                /\ attrsMap(delivered[i])["G"].type = "map[string]any"
                /\ EvalFilter(filterProg, delivered[i]) = [val |-> TRUE, err |-> FALSE]
                /\ \E j \in 1..Len(emitted) : emitted[j] = delivered[i]

-----------------------------------------------------------------------------
(* Values that cannot be encoded (SpecEncode).                             *)

MaxEncodeHandlers == 3
MaxEncodeCalls == 2

\* An attribute whose value json.Marshal rejects.
Chan(k) == Attr(k, AnyValue("chan"))

EncodeAttrLists ==
    { <<SlogString("a", "b")>>,
      <<SlogString("a", "b"), Chan("x")>>,
      <<Chan("")>>,
      <<SlogGroup("g", <<SlogString("k", "v"), Chan("x")>>)>> }

EncodeRecords ==
    { NewRecord(T1, LevelInfo, "ok", 1, <<SlogString("e", "f")>>),
      NewRecord(T1, LevelInfo, "top", 1, <<SlogString("e", "f"), Chan("x")>>),
      NewRecord(T1, LevelInfo, "nested", 1,
                <<SlogGroup("g", <<SlogString("k", "v"),
                                   SlogGroup("gg", <<Chan("x")>>)>>)>>),
      NewRecord(T1, LevelInfo, "valuer", 1,
                <<Attr("l", LogValuerValue(AnyValue("chan")))>>),
      NewRecord(T1, LevelInfo, "inline", 1, <<SlogGroup("", <<Chan("x")>>)>>),
      NewRecord(T1, LevelInfo, "nokey", 1, <<Chan(""), SlogString("e", "f")>>) }

NextEncode ==
    \/ \E h \in 1..Len(handlers), attrs \in EncodeAttrLists :
          Len(handlers) < MaxEncodeHandlers /\ WithAttrs(h, attrs)
    \/ \E h \in 1..Len(handlers) :
          Len(handlers) < MaxEncodeHandlers /\ WithGroup(h, "G")
    \/ \E h \in 1..Len(handlers), r \in EncodeRecords :
          Len(calls) < MaxEncodeCalls /\ Handle(h, r)

SpecEncode == Init /\ [][NextEncode]_vars

RECURSIVE Unserializable(_)

\* The value, or a value inside it at some depth, is one json.Marshal rejects.
Unserializable(value) ==
    CASE value.kind = "Any" -> value.v = "chan"
      [] value.kind = "Group" ->
            \E i \in 1..Len(value.v) : Unserializable(value.v[i].Value)
      [] value.kind = "LogValuer" -> Unserializable(value.v)
      [] OTHER -> FALSE

\* Handle(h, r) comes to encode a value that cannot be encoded: one of the
\* handler's attributes, or one of the record's, that is not skipped for its
\* empty key.
EncodeFails(hs, arrs, h, r) ==
    \/ \E i \in 1..hs[h].attrs.len :
          /\ Elems(arrs, hs[h].attrs)[i].Key # ""
          /\ Unserializable(Elems(arrs, hs[h].attrs)[i].Value)
    \/ \E i \in 1..Len(r.attrs) :
          /\ r.attrs[i].Key # "" \/ r.attrs[i].Value.kind = "Group"
          /\ Unserializable(r.attrs[i].Value)

\* C17: a Handle call that comes to encode a value which cannot be encoded,
\* at any depth of the record's attributes or of the handler's, returns an
\* error and writes nothing to the writer: no length prefix, no payload.
C17_EncodeErrorWritesNothing ==
    [][(/\ Len(calls') = Len(calls) + 1
        /\ calls'[Len(calls')].r.PC # 0
        /\ EncodeFails(handlers, arrays, calls'[Len(calls')].h, calls'[Len(calls')].r)) =>
          /\ calls'[Len(calls')].out = "error"
          /\ sink' = sink]_vars

\* Two calls have failed and nothing was written: the first for a value
\* among the handler's attributes, the second for a value two groups deep
\* in the record, on a handler with an open group.
C17_Witness ==
    /\ Len(calls) = 2
    /\ calls[1].out = "error" /\ calls[1].r.Message = "ok"
    /\ calls[2].out = "error" /\ calls[2].r.Message = "nested"
    /\ handlers[calls[2].h].groupName = "G"
    /\ sink = <<>>

-----------------------------------------------------------------------------
(* Groups: open groups, empty groups, groups without a name (SpecGroup).   *)

MaxGroupHandlers == 4
MaxGroupCalls == 2

\* A group without a name: {x: 1}.
Inline == SlogGroup("", <<SlogInt("x", 1)>>)

\* The attributes given to WithAttrs.
GroupAttrLists ==
    { <<SlogString("a", "b")>>,
      <<SlogString("c", "d")>>,
      <<SlogGroup("E", <<>>)>>,
      <<Inline>> }

\* The log calls.
GroupRecords ==
    { NewRecord(T1, LevelInfo, "none", 1, <<>>),
      NewRecord(T1, LevelInfo, "msg", 1, <<SlogString("e", "f")>>),
      NewRecord(T1, LevelInfo, "inline", 1, <<Inline>>),
      NewRecord(T1, LevelInfo, "nested", 1, <<SlogGroup("P", <<Inline>>)>>) }

NextGroup ==
    \/ \E h \in 1..Len(handlers), attrs \in GroupAttrLists :
          Len(handlers) < MaxGroupHandlers /\ WithAttrs(h, attrs)
    \/ \E h \in 1..Len(handlers) :
          Len(handlers) < MaxGroupHandlers /\ WithGroup(h, "G")
    \/ \E h \in 1..Len(handlers), r \in GroupRecords :
          Len(calls) < MaxGroupCalls /\ Handle(h, r)

SpecGroup == Init /\ [][NextGroup]_vars

\* Handler h is NewHandler(w).WithGroup("G"), nothing was derived from it, and
\* no log call on it had attributes.
UnusedGroupG(h) ==
    /\ h \in 2..Len(handlers)
    /\ derived[h] = [op |-> "WithGroup", from |-> 1, arg |-> "G"]
    /\ \A j \in 1..Len(derived) : derived[j].from # h
    /\ \A i \in 1..Len(calls) : calls[i].h = h => calls[i].r.attrs = <<>>

RECURSIVE AllKeys(_)

\* The keys of a decoded mapping and of the groups in it, at every depth.
AllKeys(m) ==
    DOMAIN m \cup UNION {AllKeys(m[k].v) : k \in {x \in DOMAIN m : m[x].kind = "Group"}}

\* C22: the name of a group without attributes ("E" is given to empty groups
\* only) is a key of no decoded record, neither at the top level nor inside
\* a group.
C22_EmptyGroupsAreNotPersisted ==
    \A id \in 1..Len(calls) :
        calls[id].out = "ok" =>
            /\ ReadBack(id).err = "nil"
            /\ "E" \notin AllKeys(ReadBack(id).record.Attrs)

RECURSIVE GivenKeys(_)

\* The keys of a list of attributes and of the groups in it, at every depth.
GivenKeys(as) ==
    UNION {{as[i].Key} \cup
             (IF as[i].Value.kind = "Group" THEN GivenKeys(as[i].Value.v) ELSE {})
           : i \in 1..Len(as)}

RECURSIVE AttachedKeys(_)

\* The keys and group names given to the derivations that made handler h.
AttachedKeys(h) ==
    IF h <= 1 THEN {}
    ELSE AttachedKeys(derived[h].from) \cup
         (IF derived[h].op = "WithGroup" THEN {derived[h].arg}
          ELSE GivenKeys(derived[h].arg))

\* The keys given to the log calls up to call id.
LoggedKeys(id) ==
    UNION {GivenKeys(calls[i].r.attrs) : i \in 1..id}

\* C23: what is attached through one handler derived from a handler with an
\* open group appears in no record logged through another handler derived
\* from it, or through it: every key of a decoded record, at every depth,
\* was given to a derivation on the logging handler's own chain or to a log
\* call.
C23_SiblingsUnderOpenGroup ==
    \A id \in 1..Len(calls) :
        calls[id].out = "ok" =>
            AllKeys(ReadBack(id).record.Attrs) \subseteq
                (AttachedKeys(calls[id].h) \cup LoggedKeys(id))

\* C28: the children of a group without a name go where the group stands:
\* into G when the group is passed to a log call on WithGroup("G"), into P
\* when it is nested in the group value P, and beside the handler's other
\* attributes when it was attached with WithAttrs; they are not dropped and
\* not stored under the empty key.
C28_InlineGroupFlattensOneLevel ==
    (Len(calls) >= 1 /\ calls[1].out # "ignored") =>
        /\ (calls[1].h = 1 /\ calls[1].r.attrs = <<SlogGroup("P", <<Inline>>)>>) =>
              /\ calls[1].out = "ok"
              /\ ReadBack(1).record.Attrs = ("P" :> GroupOf("x" :> Int64Value(1)))
        /\ (/\ calls[1].h > 1
            /\ derived[calls[1].h] = [op |-> "WithGroup", from |-> 1, arg |-> "G"]
            /\ \A j \in 1..Len(derived) : derived[j].from # calls[1].h
            /\ calls[1].r.attrs = <<Inline>>) =>
              /\ calls[1].out = "ok"
              /\ ReadBack(1).record.Attrs = ("G" :> GroupOf("x" :> Int64Value(1)))
        /\ (/\ calls[1].h > 1
            /\ derived[calls[1].h] = [op |-> "WithAttrs", from |-> 1, arg |-> <<Inline>>]
            /\ calls[1].r.attrs = <<SlogString("e", "f")>>) =>
              /\ calls[1].out = "ok"
              /\ ReadBack(1).record.Attrs = ("x" :> Int64Value(1) @@ "e" :> StringValue("f"))

\* C36: a Handle call changes no handler, no attribute list and no group:
\* what any handler would write for a log call is after the call what it
\* was before it.
C36_HandleLeavesHandlersUnchanged ==
    [][Len(calls') = Len(calls) + 1 =>
          /\ handlers' = handlers
          /\ arrays' = arrays
          /\ groups' = groups
          /\ \A h \in 1..Len(handlers), p \in GroupRecords :
                Out(handlers', groups', arrays', h, p) = Out(handlers, groups, arrays, h, p)]_vars

\* C37: no group holds itself, directly or through other groups, and no
\* Handle call gives the marshaller a tree without an end.
C37_GroupsFormATree ==
    /\ \A g \in 1..Len(groups) :
          ~HasCycle(Resolve(Value_Ref(g), groups, Len(groups)))
    /\ \A id \in 1..Len(calls) : calls[id].out # "overflow"
    /\ ~crashed

-----------------------------------------------------------------------------
(* Handle in several threads on a handler with an open group, step by      *)
(* step: fillProtobufRecord writes the group's map, proto.Marshal reads it  *)
(* (SpecRace).                                                             *)

MaxRaceCalls == 2

\* NewHandler(w) and NewHandler(w).WithGroup("G").
RaceHandlers == withGroup(<<NewHandler>>, <<>>, <<>>, 1, "G")

RaceRecords ==
    { NewRecord(T1, LevelInfo, "msg", 1, <<SlogString("e", "f")>>),
      NewRecord(T1, LevelWarn, "m", 1, <<SlogString("a", "b"), SlogInt("n", 1)>>) }

\* A thread that is not in Handle.
RaceIdle == [id |-> 0, b |-> Garbage(0), pc |-> "idle", pbr |-> BlankRecord]

InitRace ==
    /\ handlers = RaceHandlers.handlers
    /\ groups = RaceHandlers.groups
    /\ arrays = RaceHandlers.arrays
    /\ derived = <<[op |-> "NewHandler", from |-> 0, arg |-> <<>>],
                   [op |-> "WithGroup", from |-> 1, arg |-> "G"]>>
    /\ sink = <<>>
    /\ pool = <<>>
    /\ calls = <<>>
    /\ crashed = FALSE
    /\ inflight = [t \in Threads |-> RaceIdle]
    /\ RIdle

\* Another thread than t is, in one of the stages pcs of its Handle, at work
\* on the group of handler h.
RacesWith(t, h, pcs) ==
    /\ handlers[h].group # 0
    /\ \E u \in Threads \ {t} :
          /\ inflight[u].pc \in pcs
          /\ handlers[calls[inflight[u].id].h].group = handlers[h].group

\* Thread t enters h.Handle(ctx, r): Get from the pool, and into
\* fillProtobufRecord, which writes h.group.Attrs. Go maps are not safe for
\* a write concurrent with another access: the runtime may end the program.
RaceFillBegin(t, h, r) ==
    /\ ~crashed
    /\ inflight[t].pc = "idle"
    /\ Len(calls) < MaxRaceCalls
    /\ r.PC # 0
    /\ calls' = Append(calls, [h |-> h, r |-> r, out |-> "running",
                               raced |-> RacesWith(t, h, {"fill", "marshal"})])
    /\ crashed' \in (IF RacesWith(t, h, {"fill", "marshal"}) THEN BOOLEAN ELSE {FALSE})
    /\ pool' = IF pool = <<>> THEN pool ELSE Tail(pool)
    /\ inflight' = [inflight EXCEPT ![t] = [id |-> Len(calls) + 1, b |-> Garbage(0),
                                            pc |-> "fill", pbr |-> PoolGet(pool)]]
    /\ UNCHANGED <<handlers, groups, arrays, sink, derived>>
    /\ UNCHANGED rvars

\* fillProtobufRecord returns in thread t.
RaceFillEnd(t) ==
    /\ ~crashed
    /\ inflight[t].pc = "fill"
    /\ \E f \in {fillProtobufRecord(inflight[t].pbr, handlers, groups, arrays,
                                     calls[inflight[t].id].h, calls[inflight[t].id].r)} :
          /\ groups' = f.groups
          /\ IF f.err
             THEN /\ calls' = [calls EXCEPT ![inflight[t].id].out = "error"]
                  /\ pool' = Append(pool, BlankRecord)
                  /\ inflight' = [inflight EXCEPT ![t] = RaceIdle]
             ELSE /\ inflight' = [inflight EXCEPT ![t].pc = "filled", ![t].pbr = f.pbr]
                  /\ UNCHANGED <<calls, pool>>
    /\ UNCHANGED <<handlers, arrays, sink, derived, crashed>>
    /\ UNCHANGED rvars

\* Thread t calls proto.Marshal, which reads the maps of the groups.
RaceMarshalBegin(t) ==
    /\ ~crashed
    /\ inflight[t].pc = "filled"
    /\ calls' = [calls EXCEPT ![inflight[t].id].raced =
                     @ \/ RacesWith(t, calls[inflight[t].id].h, {"fill"})]
    /\ crashed' \in (IF RacesWith(t, calls[inflight[t].id].h, {"fill"})
                      THEN BOOLEAN ELSE {FALSE})
    /\ inflight' = [inflight EXCEPT ![t].pc = "marshal"]
    /\ UNCHANGED <<handlers, groups, arrays, sink, pool, derived>>
    /\ UNCHANGED rvars

\* proto.Marshal returns in thread t.
RaceMarshalEnd(t) ==
    /\ ~crashed
    /\ inflight[t].pc = "marshal"
    /\ \E m \in {Marshal(inflight[t].pbr, groups)} :
          IF m.overflow
          THEN /\ crashed' = TRUE
               /\ calls' = [calls EXCEPT ![inflight[t].id].out = "overflow"]
               /\ UNCHANGED inflight
          ELSE /\ inflight' = [inflight EXCEPT ![t].pc = "len", ![t].b = m.b]
               /\ UNCHANGED <<calls, crashed>>
    /\ UNCHANGED <<handlers, groups, arrays, sink, pool, derived>>
    /\ UNCHANGED rvars

\* Thread t writes the length prefix.
RaceWriteLen(t) ==
    /\ ~crashed
    /\ inflight[t].pc = "len"
    /\ sink' = Append(sink, FrameWrites(inflight[t].id, inflight[t].b)[1])
    /\ inflight' = [inflight EXCEPT ![t].pc = "msg"]
    /\ UNCHANGED <<handlers, groups, arrays, pool, calls, derived, crashed>>
    /\ UNCHANGED rvars

\* Thread t writes the payload and leaves Handle: Reset, Put.
RaceWriteMsg(t) ==
    /\ ~crashed
    /\ inflight[t].pc = "msg"
    /\ sink' = Append(sink, FrameWrites(inflight[t].id, inflight[t].b)[2])
    /\ calls' = [calls EXCEPT ![inflight[t].id].out = "ok"]
    /\ pool' = Append(pool, BlankRecord)
    /\ inflight' = [inflight EXCEPT ![t] = RaceIdle]
    /\ UNCHANGED <<handlers, groups, arrays, derived, crashed>>
    /\ UNCHANGED rvars

NextRace ==
    \/ \E t \in Threads, h \in 1..Len(handlers), r \in RaceRecords : RaceFillBegin(t, h, r)
    \/ \E t \in Threads : RaceFillEnd(t)
    \/ \E t \in Threads : RaceMarshalBegin(t)
    \/ \E t \in Threads : RaceMarshalEnd(t)
    \/ \E t \in Threads : RaceWriteLen(t)
    \/ \E t \in Threads : RaceWriteMsg(t)

SpecRace == InitRace /\ [][NextRace]_vars

\* C24: of the Handle calls on a handler with an open group, none accesses
\* the group's map while another call writes it, and the record of each
\* holds its own attributes, and only them, in the group.
C24_NoRaceOnOpenGroup ==
    \A id \in 1..Len(calls) :
        handlers[calls[id].h].group # 0 =>
            /\ ~calls[id].raced
            /\ calls[id].out = "ok" =>
                  /\ ReadBack(id).err = "nil"
                  /\ ReadBack(id).record.Attrs =
                         ("G" :> GroupOf(AsMapping(calls[id].r.attrs)))

-----------------------------------------------------------------------------
(* Read and the cancellation of its context, the loop's condition and its  *)
(* body being two steps (SpecCancel).                                      *)

\* Read: Scan has returned true, and the loop's condition looks at the
\* context.
ReadCheck ==
    /\ pc = "body"
    /\ IF cancelled
       THEN /\ pc' = "done"
            /\ result' = readReturn(cancelled, sErr)
            /\ token' = NoToken
       ELSE /\ pc' = "decode"
            /\ UNCHANGED <<result, token>>
    /\ UNCHANGED <<src, srcPos, bufLen, sStart, sEnd, sErr, cancelled, stopAt, delivered>>
    /\ UNCHANGED <<hvars, inflight, cvars>>

\* Read: the body of the loop, which decodes the token and calls fn (which
\* returns false at its stopAt-th invocation); the context is not looked at
\* again before the loop is left or Scan is called.
ReadDecode ==
    /\ pc = "decode"
    /\ token' = NoToken
    /\ \E rr \in {readRecord(token.b)} :
          IF rr.err # "nil"
          THEN /\ pc' = "done"
               /\ result' = rr.err
               /\ UNCHANGED delivered
          ELSE /\ delivered' = Append(delivered, rr.record)
               /\ pc' = afterCall(stopAt # Len(delivered) + 1, cancelled, sErr).pc
               /\ result' = afterCall(stopAt # Len(delivered) + 1, cancelled, sErr).result
    /\ UNCHANGED <<src, srcPos, bufLen, sStart, sEnd, sErr, cancelled, stopAt>>
    /\ UNCHANGED <<hvars, inflight, cvars>>

CancelRecords ==
    { NewRecord(T1, LevelInfo, "msg", 1, <<SlogString("test", "x")>>),
      NewRecord(T2, LevelWarn, "m", 1, <<>>) }

CancelTails == { <<>>, <<Frame(Garbage(2))>> }

\* Records have been written to a sink, and Read is called on a stream that
\* starts with the sink's bytes, with a context that may be cancelled already.
InitCancel ==
    \E rs \in SeqsUpTo(CancelRecords, MaxFrames), tail \in CancelTails, k \in 0..1,
       c \in BOOLEAN :
        \E w \in {WriteAll(rs, 1, [sink |-> <<>>, pool |-> <<>>, calls |-> <<>>])} :
            /\ handlers = <<NewHandler>>
            /\ groups = <<>>
            /\ arrays = <<>>
            /\ derived = <<[op |-> "NewHandler", from |-> 0, arg |-> <<>>]>>
            /\ crashed = FALSE
            /\ inflight = [t \in Threads |-> NoCall]
            /\ sink = w.sink
            /\ pool = w.pool
            /\ calls = w.calls
            /\ src = StreamOf(w.sink) \o tail
            /\ srcPos = 0
            /\ bufLen = 0
            /\ sStart = 0
            /\ sEnd = 0
            /\ sErr = "nil"
            /\ pc = "scan"
            /\ token = NoToken
            /\ cancelled = c
            /\ stopAt = k
            /\ delivered = <<>>
            /\ result = "none"
            /\ CIdle

NextCancel ==
    \/ ScanSplit
    \/ ReadCheck
    \/ ReadDecode
    \/ \E n \in ChunkSizes, eof \in BOOLEAN : ScanFill(n, eof)
    \/ Cancel

SpecCancel == InitCancel /\ [][NextCancel]_vars

\* C25: once the context is cancelled, fn is called for at most one more
\* record, the one whose frame is past the check of the loop's condition (no
\* other frame gets past it), and when Read then returns, it returns the
\* context's error; with a context cancelled from the start fn is not called.
C25_BoundedLatencyCancellation ==
    [][cancelled =>
          /\ pc # "decode" => (delivered' = delivered /\ pc' # "decode")
          /\ pc = "decode" => (Len(delivered') <= Len(delivered) + 1 /\ pc' # "decode")
          /\ (pc # "done" /\ pc' = "done") => result' = "ctx"]_vars

-----------------------------------------------------------------------------
(* Read of frames longer than the scanner's buffer (SpecGrow).             *)

RECURSIVE Doubled(_)

\* A string of 2^k bytes.
Doubled(k) == IF k = 0 THEN "x" ELSE Doubled(k - 1) \o Doubled(k - 1)

\* Records with a message of 4 bytes, of 8 KiB and of 64 KiB.
GrowRecords ==
    { NewRecord(T1, LevelInfo, Doubled(2), 1, <<>>),
      NewRecord(T1, LevelInfo, Doubled(13), 1, <<>>),
      NewRecord(T1, LevelInfo, Doubled(16), 1, <<>>) }

\* Handle has written records to a sink, and Read is called on the sink's
\* bytes with a callback that always returns true.
InitGrow ==
    \E rs \in SeqsUpTo(GrowRecords, MaxFrames) :
        \E w \in {WriteAll(rs, 1, [sink |-> <<>>, pool |-> <<>>, calls |-> <<>>])} :
            /\ handlers = <<NewHandler>>
            /\ groups = <<>>
            /\ arrays = <<>>
            /\ derived = <<[op |-> "NewHandler", from |-> 0, arg |-> <<>>]>>
            /\ crashed = FALSE
            /\ inflight = [t \in Threads |-> NoCall]
            /\ sink = w.sink
            /\ pool = w.pool
            /\ calls = w.calls
            /\ src = StreamOf(w.sink)
            /\ srcPos = 0
            /\ bufLen = 0
            /\ sStart = 0
            /\ sEnd = 0
            /\ sErr = "nil"
            /\ pc = "scan"
            /\ token = NoToken
            /\ cancelled = FALSE
            /\ stopAt = 0
            /\ delivered = <<>>
            /\ result = "none"
            /\ CIdle

\* The sizes of the reads: all that the buffer has room for, half of it, or
\* nothing (at the end of the input).
GrowChunkSizes ==
    { Min(Size(src) - srcPos,
          makeRoom(sStart, sEnd, bufLen).len - makeRoom(sStart, sEnd, bufLen).end),
      Min(Size(src) - srcPos,
          (makeRoom(sStart, sEnd, bufLen).len - makeRoom(sStart, sEnd, bufLen).end) \div 2),
      0 }

NextGrow ==
    \/ ScanSplit
    \/ ReadBody
    \/ \E n \in GrowChunkSizes : ScanFill(n, srcPos + n = Size(src))
    \/ \E n \in GrowChunkSizes : n > 0 /\ ScanFill(n, FALSE)

SpecGrow == InitGrow /\ [][NextGrow]_vars

\* C26: Read of frames that Handle wrote does not fail, whatever the length
\* of their payloads: it ends without an error.
C26_BufferGrowsAsNeeded ==
    pc = "done" => result = "nil"

-----------------------------------------------------------------------------
(* Empty keys and LogValuers, in log calls, in group values and in        *)
(* WithAttrs (SpecKeys).                                                  *)

MaxKeyHandlers == 3
MaxKeyCalls == 2

\* A LogValuer whose LogValue returns a LogValuer that returns 1.
LazyOne == LogValuerValue(LogValuerValue(Int64Value(1)))

\* A LogValuer whose LogValue returns the group {x: 1}.
LazyGroup == LogValuerValue(GroupValue(<<SlogInt("x", 1)>>))

\* A LogValuer whose LogValue returns a group without attributes.
LazyEmpty == LogValuerValue(GroupValue(<<>>))

\* The attributes given to WithAttrs.
KeyAttrLists ==
    { <<SlogString("", "v"), SlogString("a", "b")>>,
      <<Attr("l", LazyOne)>> }

\* The log calls.
KeyRecords ==
    { NewRecord(T1, LevelInfo, "call", 1, <<SlogString("", "v"), SlogString("e", "f")>>),
      NewRecord(T1, LevelInfo, "nested", 1,
                <<SlogGroup("P", <<SlogString("", "v"), SlogInt("x", 1)>>)>>),
      NewRecord(T1, LevelInfo, "one", 1, <<SlogInt("a", 1)>>),
      NewRecord(T1, LevelInfo, "lazy", 1, <<Attr("l", LazyOne)>>),
      NewRecord(T1, LevelInfo, "lazy group", 1, <<Attr("", LazyGroup)>>),
      NewRecord(T1, LevelInfo, "lazy empty", 1,
                <<SlogGroup("P", <<Attr("l", LazyEmpty), SlogInt("x", 1)>>)>>) }

NextKeys ==
    \/ \E h \in 1..Len(handlers), attrs \in KeyAttrLists :
          Len(handlers) < MaxKeyHandlers /\ WithAttrs(h, attrs)
    \/ \E h \in 1..Len(handlers) :
          Len(handlers) < MaxKeyHandlers /\ WithGroup(h, "G")
    \/ \E h \in 1..Len(handlers), r \in KeyRecords :
          Len(calls) < MaxKeyCalls /\ Handle(h, r)

SpecKeys == Init /\ [][NextKeys]_vars

\* C29: no decoded mapping, at the top level or in a group, has the empty
\* key, wherever the attribute with the empty key and a value that is not a
\* group was given (log call, WithAttrs, group value), and the attributes
\* given beside it are decoded.
C29_EmptyKeyNeverDecoded ==
    \A id \in 1..Len(calls) :
        calls[id].out = "ok" =>
            /\ ReadBack(id).err = "nil"
            /\ "" \notin AllKeys(ReadBack(id).record.Attrs)
            /\ (GivenKeys(calls[id].r.attrs) \ {"", "l"})
                   \subseteq AllKeys(ReadBack(id).record.Attrs)

RECURSIVE Direct(_)

\* The attributes `as` with every LogValuer, at every depth, replaced by the
\* value it resolves to.
Direct(as) ==
    [i \in 1..Len(as) |->
        Attr(as[i].Key,
             IF as[i].Value.kind = "LogValuer"
             THEN Direct(<<Attr("", as[i].Value.v)>>)[1].Value
             ELSE IF as[i].Value.kind = "Group"
             THEN GroupValue(Direct(as[i].Value.v))
             ELSE as[i].Value)]

\* C30: a log call writes what it would write if every LogValuer of its
\* attributes, at every depth, were replaced by the value it resolves to;
\* and a handler made by WithAttrs logs what the handler made with the
\* resolved attributes would log.
C30_LazyValuesAsIfDirect ==
    [][/\ Len(calls') = Len(calls) + 1 =>
             sink' = sink \o handle(handlers, groups, arrays, pool, Len(calls) + 1,
                                    calls'[Len(calls')].h,
                                    [calls'[Len(calls')].r EXCEPT
                                        !.attrs = Direct(@)]).writes
       /\ (Len(handlers') = Len(handlers) + 1
              /\ derived'[Len(derived')].op = "WithAttrs") =>
             \A p \in KeyRecords :
                 Out(handlers', groups', arrays', Len(handlers'), p)
                   = (LET w == withAttrs(handlers, groups, arrays,
                                         derived'[Len(derived')].from,
                                         Direct(derived'[Len(derived')].arg))
                      IN  Out(w.handlers, w.groups, w.arrays, Len(w.handlers), p))]_vars

\* C31: the first log call, with {a: 1}, on NewHandler(w).WithGroup("G")
\* .WithGroup("G"), nothing else being derived from the two handlers of the
\* chain, decodes to {G: {G: {a: 1}}}: the second group is nested in the
\* first, not merged with it.
C31_SameNameTwiceNests ==
    (/\ Len(calls) >= 1
     /\ calls[1].h = 3
     /\ derived[2] = [op |-> "WithGroup", from |-> 1, arg |-> "G"]
     /\ derived[3] = [op |-> "WithGroup", from |-> 2, arg |-> "G"]
     /\ \A j \in 4..Len(derived) : derived[j].from \notin {2, 3}
     /\ calls[1].r.attrs = <<SlogInt("a", 1)>>) =>
        /\ calls[1].out = "ok"
        /\ ReadBack(1).err = "nil"
        /\ ReadBack(1).record.Attrs
              = ("G" :> GroupOf("G" :> GroupOf("a" :> Int64Value(1))))
        /\ ReadBack(1).record.Attrs # ("G" :> GroupOf("a" :> Int64Value(1)))

\* The log call with {a: 1} was made on the handler with G opened twice.
C31_Witness ==
    /\ Len(calls) >= 1
    /\ calls[1].h = 3
    /\ derived[2] = [op |-> "WithGroup", from |-> 1, arg |-> "G"]
    /\ derived[3] = [op |-> "WithGroup", from |-> 2, arg |-> "G"]
    /\ calls[1].r.attrs = <<SlogInt("a", 1)>>
    /\ calls[1].out = "ok"
    /\ "G" \in DOMAIN ReadBack(1).record.Attrs

-----------------------------------------------------------------------------
(* recordPool: Handle in several threads, step by step, with the Record   *)
(* instances told apart and a writer that may fail (SpecPool).            *)

MaxPoolCalls == 3

\* A message that is not valid UTF-8: proto.Marshal refuses it in a string
\* field of a proto3 message.
InvalidUTF8 == "<ff>"

PoolRecords ==
    { NewRecord(T1, LevelWarn, "msg", 1, <<SlogString("e", "f")>>),
      NewRecord(ZeroTime, LevelInfo, "zero", 1, <<>>),
      NewRecord(T1, LevelInfo, "chan", 1, <<SlogString("e", "f"), Chan("x")>>),
      NewRecord(T1, LevelInfo, InvalidUTF8, 1, <<SlogInt("n", 1)>>) }

\* A thread that is not in Handle.
PoolIdle == [id |-> 0, b |-> Garbage(0), pc |-> "idle", inst |-> 0, pbr |-> BlankRecord]

InitPool ==
    /\ handlers = <<NewHandler>>
    /\ groups = <<>>
    /\ arrays = <<>>
    /\ derived = <<[op |-> "NewHandler", from |-> 0, arg |-> <<>>]>>
    /\ sink = <<>>
    /\ pool = <<>>
    /\ calls = <<>>
    /\ crashed = FALSE
    /\ inflight = [t \in Threads |-> PoolIdle]
    /\ RIdle

\* Thread t enters Handle(ctx, r) and takes a Record from the pool: one of
\* those the pool holds, or, when it holds none, a new one.
PoolAcquire(t, r) ==
    /\ inflight[t].pc = "idle"
    /\ Len(calls) < MaxPoolCalls
    /\ r.PC # 0
    /\ IF pool = <<>>
       THEN /\ inflight' = [inflight EXCEPT ![t] =
                               [id |-> Len(calls) + 1, b |-> Garbage(0), pc |-> "fill",
                                inst |-> Len(calls) + 1, pbr |-> BlankRecord]]
            /\ pool' = pool
       ELSE \E i \in 1..Len(pool) :
               /\ inflight' = [inflight EXCEPT ![t] =
                                  [id |-> Len(calls) + 1, b |-> Garbage(0), pc |-> "fill",
                                   inst |-> pool[i].inst, pbr |-> pool[i].pbr]]
               /\ pool' = SubSeq(pool, 1, i - 1) \o SubSeq(pool, i + 1, Len(pool))
    /\ calls' = Append(calls, [h |-> 1, r |-> r, out |-> "running",
                               inst |-> inflight'[t].inst])
    /\ UNCHANGED <<handlers, groups, arrays, sink, derived, crashed>>
    /\ UNCHANGED rvars

\* fillProtobufRecord in thread t.
PoolFill(t) ==
    /\ inflight[t].pc = "fill"
    /\ \E f \in {fillProtobufRecord(inflight[t].pbr, handlers, groups, arrays,
                                     1, calls[inflight[t].id].r)} :
          /\ groups' = f.groups
          /\ inflight' = [inflight EXCEPT ![t].pbr = f.pbr,
                                          ![t].pc = IF f.err THEN "exit" ELSE "marshal"]
          /\ calls' = IF f.err THEN [calls EXCEPT ![inflight[t].id].out = "error"]
                      ELSE calls
    /\ UNCHANGED <<handlers, arrays, sink, pool, derived, crashed>>
    /\ UNCHANGED rvars

\* proto.Marshal in thread t.
PoolMarshal(t) ==
    /\ inflight[t].pc = "marshal"
    /\ IF inflight[t].pbr.Message = InvalidUTF8
       THEN /\ inflight' = [inflight EXCEPT ![t].pc = "exit"]
            /\ calls' = [calls EXCEPT ![inflight[t].id].out = "error"]
       ELSE /\ inflight' = [inflight EXCEPT ![t].pc = "len",
                                            ![t].b = Marshal(inflight[t].pbr, groups).b]
            /\ calls' = calls
    /\ UNCHANGED <<handlers, groups, arrays, sink, pool, derived, crashed>>
    /\ UNCHANGED rvars

\* h.w.Write(buf) in thread t: the writer takes the length prefix or fails.
PoolWriteLen(t, ok) ==
    /\ inflight[t].pc = "len"
    /\ IF ok
       THEN /\ sink' = Append(sink, FrameWrites(inflight[t].id, inflight[t].b)[1])
            /\ inflight' = [inflight EXCEPT ![t].pc = "msg"]
            /\ calls' = calls
       ELSE /\ sink' = sink
            /\ inflight' = [inflight EXCEPT ![t].pc = "exit"]
            /\ calls' = [calls EXCEPT ![inflight[t].id].out = "error"]
    /\ UNCHANGED <<handlers, groups, arrays, pool, derived, crashed>>
    /\ UNCHANGED rvars

\* h.w.Write(b) in thread t: the writer takes the payload or fails.
PoolWriteMsg(t, ok) ==
    /\ inflight[t].pc = "msg"
    /\ sink' = IF ok THEN Append(sink, FrameWrites(inflight[t].id, inflight[t].b)[2])
               ELSE sink
    /\ inflight' = [inflight EXCEPT ![t].pc = "exit"]
    /\ calls' = [calls EXCEPT ![inflight[t].id].out = IF ok THEN "ok" ELSE "error"]
    /\ UNCHANGED <<handlers, groups, arrays, pool, derived, crashed>>
    /\ UNCHANGED rvars

\* The deferred function keeping what the call left in the Record.
PoolReleaseWithoutReset(t) ==
    /\ inflight[t].pc = "exit"
    /\ pool' = Append(pool, [inst |-> inflight[t].inst, pbr |-> inflight[t].pbr])
    /\ inflight' = [inflight EXCEPT ![t] = PoolIdle]
    /\ UNCHANGED <<handlers, groups, arrays, sink, calls, derived, crashed>>
    /\ UNCHANGED rvars

\* Handle returns in thread t; its deferred function: pbr.Reset(),
\* recordPool.Put(pbr).
PoolRelease(t) ==
    /\ inflight[t].pc = "exit"
    /\ pool' = Append(pool, [inst |-> inflight[t].inst, pbr |-> BlankRecord])
    /\ inflight' = [inflight EXCEPT ![t] = PoolIdle]
    /\ UNCHANGED <<handlers, groups, arrays, sink, calls, derived, crashed>>
    /\ UNCHANGED rvars

NextPool ==
    \/ \E t \in Threads, r \in PoolRecords : PoolAcquire(t, r)
    \/ \E t \in Threads : PoolFill(t)
    \/ \E t \in Threads : PoolMarshal(t)
    \/ \E t \in Threads, ok \in BOOLEAN : PoolWriteLen(t, ok)
    \/ \E t \in Threads, ok \in BOOLEAN : PoolWriteMsg(t, ok)
    \/ \E t \in Threads : PoolRelease(t)

SpecPool == InitPool /\ [][NextPool]_vars

\* The Record instances that the calls in flight hold.
Held == {inflight[t].inst : t \in {u \in Threads : inflight[u].pc # "idle"}}

\* The Record instances that the pool holds.
Pooled == {pool[i].inst : i \in 1..Len(pool)}

\* C32: a Record instance is held by one call in flight or is once in the
\* pool, never both; what the pool holds is blank, and so is what a call
\* has just taken; and a call that has ended, however it ended, holds no
\* instance: the one it took is in the pool or was taken again.
C32_PoolDiscipline ==
    /\ \A t, u \in Threads :
          (t # u /\ inflight[t].pc # "idle" /\ inflight[u].pc # "idle") =>
              inflight[t].inst # inflight[u].inst
    /\ Held \cap Pooled = {}
    /\ \A i, j \in 1..Len(pool) : i # j => pool[i].inst # pool[j].inst
    /\ \A i \in 1..Len(pool) : pool[i].pbr = BlankRecord
    /\ \A t \in Threads : inflight[t].pc = "fill" => inflight[t].pbr = BlankRecord
    /\ \A id \in 1..Len(calls) :
          calls[id].out = "running" => \E t \in Threads : inflight[t].id = id
    /\ Cardinality(Held \cup Pooled) = Cardinality(Held) + Len(pool)
    /\ \A id \in 1..Len(calls) : calls[id].inst \in Pooled \cup Held
    /\ \A t \in Threads :
          inflight[t].pc # "idle" => calls[inflight[t].id].inst = inflight[t].inst

\* Calls have ended in each way (filled with an error, refused by Marshal,
\* failed at either write, written), the pool holds an instance that was
\* used by more than one call, and a call holds another one.
C32_Witness ==
    /\ \E i \in 1..Len(calls) : calls[i].out = "ok"
    /\ \E i \in 1..Len(calls) : calls[i].out = "error" /\ calls[i].r.Message = "chan"
    /\ \E i \in 1..Len(calls) : calls[i].out = "error" /\ calls[i].r.Message = InvalidUTF8
    /\ Len(calls) = MaxPoolCalls
    /\ Len(pool) = 1
    /\ \A t \in Threads : inflight[t].pc = "idle"

-----------------------------------------------------------------------------
(* Handle in one thread with a writer that may fail (SpecWrites).         *)

NextWrites ==
    \/ \E r \in PoolRecords : PoolAcquire(1, r)
    \/ PoolFill(1)
    \/ PoolMarshal(1)
    \/ \E ok \in BOOLEAN : PoolWriteLen(1, ok)
    \/ \E ok \in BOOLEAN : PoolWriteMsg(1, ok)
    \/ PoolRelease(1)

SpecWrites == InitPool /\ [][NextWrites]_vars

\* C39: between the Handle calls of one thread, what the sink has taken is
\* whole frames: every length prefix is followed by the payload of its call,
\* also after calls in which a write failed.
C39_SinkHoldsWholeFrames ==
    (\A t \in Threads : inflight[t].pc = "idle") =>
        /\ Len(sink) % 2 = 0
        /\ \A i \in 1..Len(sink) :
              IF i % 2 = 1
              THEN /\ sink[i].kind = "len"
                   /\ i < Len(sink)
                   /\ sink[i + 1].kind = "msg"
                   /\ sink[i + 1].call = sink[i].call
                   /\ Uint32(sink[i].data) = sink[i + 1].data.size
              ELSE sink[i].kind = "msg"

-----------------------------------------------------------------------------
(* WithAttrs on handlers without an open group: the slices of attributes  *)
(* and their backing arrays (SpecSiblings).                               *)

MaxSiblingHandlers == 5
MaxSiblingCalls == 1

\* The attributes given to WithAttrs.
SiblingAttrLists ==
    { <<SlogString("a", "b"), SlogString("c", "d")>>,
      <<SlogString("e", "f")>>,
      <<SlogString("x", "y")>> }

NextSiblings ==
    \/ \E h \in 1..Len(handlers), attrs \in SiblingAttrLists :
          Len(handlers) < MaxSiblingHandlers /\ WithAttrs(h, attrs)
    \/ \E h \in 1..Len(handlers) :
          Len(calls) < MaxSiblingCalls
            /\ Handle(h, NewRecord(T1, LevelInfo, "msg", 1, <<>>))

SpecSiblings == Init /\ [][NextSiblings]_vars

RECURSIVE Accumulated(_)

\* The attributes given to the WithAttrs calls that made handler h, in order.
Accumulated(h) ==
    IF h <= 1 THEN <<>> ELSE Accumulated(derived[h].from) \o derived[h].arg

\* C38: the attribute list of every handler made by WithAttrs calls alone is
\* what its chain of calls was given, in order, whatever was derived from
\* the handlers of the chain before or after.
C38_SiblingListsAreApart ==
    \A h \in 1..Len(handlers) :
        Elems(arrays, handlers[h].attrs) = Accumulated(h)

====
